---- MODULE Spec2Model ----
(***************************************************************************)
(* The chat front end of the LangGraph agent (streamlit_app.py) with the   *)
(* agent runner it drives (langgraph_main.py): one UI session, its         *)
(* conversations in st.session_state, the session files under logs/, and   *)
(* the chat-input handler taken one step at a time.                        *)
(*                                                                         *)
(* Text is a sequence of parts: the f-string  f"Error: {str(e)}"  is       *)
(* <<"Error: ", e>>, the empty string is <<>>.  A conversation id          *)
(* f"conv_{n}" is <<"conv", n>>, and None (no conversation) is <<>>.       *)
(* Timestamps are readings of clock, which advances with every handler     *)
(* step that calls datetime.now().                                         *)
(***************************************************************************)
EXTENDS Integers, Sequences, FiniteSets, TLC

\* Bounds of the model.
MaxTurns == 2
MaxCalls == 1
MaxConversations == 2
MaxHistoryCalls == 2
MaxResults == 4
MaxRuns == 2
MaxResultMessages == 3

\* The keys of st.session_state.tool_toggles, in insertion order.
ToolOrder == <<"search_web", "document_retrieval", "sql_retrieval", "run_code">>
Tools == {ToolOrder[i] : i \in DOMAIN ToolOrder}

\* What the user types, the ids the model provider gives to tool calls (""
\* is a call without an id), the texts of exceptions, the texts an adapter
\* and the language model return.
Prompts == {"q1"}
CallIds == {"", "c1", "c2"}
Errors == {"boom"}
ToolResult == <<"result">>
Answers == {<<"answer">>, <<>>}

NoConv == <<>>
ConvId(n) == <<"conv", n>>

VARIABLES
    conversations,            \* st.session_state.conversations
    current_conversation_id,  \* st.session_state.current_conversation_id
    conversation_counter,     \* st.session_state.conversation_counter
    tool_toggles,             \* st.session_state.tool_toggles
    disk,                     \* logs/<conv_id>.json: file -> JSON document
    imported,                 \* modules this process has imported
    clock,                    \* datetime.now()
    pc,                       \* position of the chat-input handler
    turn,                     \* the handler's locals for the turn
    agent,                    \* the agent run: its tools, message list, logs
    queries,                  \* per conversation: queries submitted so far
    pending,                  \* the widget event the browser sent mid-run
    peer,                     \* the session state of a second browser session
    deleted,                  \* the conversations the user has deleted
    config,                   \* tools/config.json and the updates under way
    adapter,                  \* the retrieval adapters: their store, cache, last call
    graph                     \* the runs of the explicit-routing graph

vars == <<conversations, current_conversation_id, conversation_counter,
          tool_toggles, disk, imported, clock, pc, turn, agent, queries,
          pending, peer, deleted, config, adapter, graph>>

----------------------------------------------------------------------------
\* Messages (langchain_core.messages).

HumanMessage(c) == [cls |-> "HumanMessage", content |-> c]
AIMessage(c) == [cls |-> "AIMessage", content |-> c]
SystemMessage(c) == [cls |-> "SystemMessage", content |-> c]
\* An AI message of the agent's result: it carries its tool calls.
AIToolMessage(c, calls) == [cls |-> "AIMessage", content |-> c, tool_calls |-> calls]
ToolMessage(c, id) == [cls |-> "ToolMessage", content |-> c, tool_call_id |-> id]
ToolCall(name, id) == [name |-> name, id |-> id, args |-> "args"]

Contains(text, part) == \E i \in DOMAIN text : text[i] = part

Last(s) == s[Len(s)]

SetMax(S) == CHOOSE x \in S : \A y \in S : y <= x
SetMin(S) == CHOOSE x \in S : \A y \in S : x <= y

----------------------------------------------------------------------------
\* Persistence: streamlit_app.py, serialize_message .. load_conversations.

serialize_message(message) ==
    LET msg_type ==
            IF message.cls = "HumanMessage" THEN "human"
            ELSE IF message.cls = "AIMessage" THEN "ai"
            ELSE IF message.cls = "SystemMessage" THEN "system"
            ELSE "tool"
    IN [type |-> msg_type, content |-> message.content]

deserialize_message_system(message_data) ==
    IF message_data.type = "human" THEN HumanMessage(message_data.content)
    ELSE SystemMessage(message_data.content)

deserialize_message(message_data) ==
    IF message_data.type = "human" THEN HumanMessage(message_data.content)
    ELSE IF message_data.type = "ai" THEN AIMessage(message_data.content)
    ELSE SystemMessage(message_data.content)

serialize_conversation(conv_id, conversation) ==
    [conversation_id |-> conv_id,
     created_at |-> conversation.created_at,
     messages |-> [i \in DOMAIN conversation.messages |->
                      serialize_message(conversation.messages[i])],
     tools_used |-> conversation.tools_used,
     execution_logs |-> conversation.execution_logs]

\* The files after save_conversation(conv_id): the session's file is
\* rewritten with the JSON document of the conversation; nothing is written
\* for an id that is no conversation.
save_conversation(files, conv_id, convs) ==
    IF conv_id \notin DOMAIN convs THEN files
    ELSE (conv_id :> serialize_conversation(conv_id, convs[conv_id])) @@ files

\* A file opened with mode "w" and not written yet: json.load raises
\* JSONDecodeError on it.
Truncated == [truncated |-> TRUE]

\* The files json.load parses, and those load_conversations_from_disk skips.
parsed(files) == {f \in DOMAIN files : files[f] # Truncated}
skipped(files) == DOMAIN files \ parsed(files)

\* The dict load_conversations_from_disk returns for the files.
load_conversations_from_disk(files) ==
    LET ids == {files[f].conversation_id : f \in parsed(files)} \ {NoConv}
    IN [conv_id \in ids |->
          LET payload == files[CHOOSE f \in parsed(files) :
                                   files[f].conversation_id = conv_id]
          IN [messages |-> [i \in DOMAIN payload.messages |->
                               deserialize_message(payload.messages[i])],
              tools_used |-> payload.tools_used,
              execution_logs |-> payload.execution_logs,
              created_at |-> payload.created_at]]

EmptyConversation(now) ==
    [messages |-> <<>>, tools_used |-> <<>>, execution_logs |-> <<>>,
     created_at |-> now]

----------------------------------------------------------------------------
\* Tool toggles and the priority caption: streamlit_app.py.

\* get_enabled_tools: the names, in the order of tool_configs.
get_enabled_tools(toggles) ==
    SelectSeq(ToolOrder, LAMBDA name : toggles[name])

priority_order_swapped(name) ==
    CASE name = "document_retrieval" -> 2
      [] name = "sql_retrieval" -> 1
      [] name = "search_web" -> 3
      [] OTHER -> 4

priority_order(name) ==
    CASE name = "document_retrieval" -> 1
      [] name = "sql_retrieval" -> 2
      [] name = "search_web" -> 3
      [] OTHER -> 4

\* list.sort(key=...) is stable: x goes behind every element whose key is
\* not greater.
InsertByPriority(sorted, x) ==
    LET k == Cardinality({i \in DOMAIN sorted :
                             priority_order(sorted[i]) <= priority_order(x)})
    IN SubSeq(sorted, 1, k) \o <<x>> \o SubSeq(sorted, k + 1, Len(sorted))

RECURSIVE SortByPriority(_)
SortByPriority(s) ==
    IF s = <<>> THEN <<>>
    ELSE InsertByPriority(SortByPriority(SubSeq(s, 1, Len(s) - 1)), Last(s))

\* priority_tools of the home page, after its sort.
priority_tools(toggles) ==
    SortByPriority(SelectSeq(get_enabled_tools(toggles),
        LAMBDA name : name \in {"document_retrieval", "sql_retrieval", "search_web"}))

\* get_enabled_tool_functions: the enabled adapters, in the order of the
\* keys of tool_toggles.
get_enabled_tool_functions(toggles) ==
    SelectSeq(ToolOrder, LAMBDA name : toggles[name])

\* An agent built over every adapter of the registry, whatever it is given.
create_agent_with_tools_all(tools_list) ==
    [tools |-> ToolOrder,
     system_prompt |-> [name \in {"document_retrieval", "sql_retrieval", "search_web"}
                           |-> TRUE]]

\* create_agent_with_tools: the agent holds the tools it was given; its
\* system prompt marks which of the three prioritised tools it has.
create_agent_with_tools(tools_list) ==
    LET tool_names == {tools_list[i] : i \in DOMAIN tools_list}
    IN [tools |-> tools_list,
        system_prompt |-> [name \in {"document_retrieval", "sql_retrieval", "search_web"}
                              |-> name \in tool_names]]

----------------------------------------------------------------------------
\* run_agent_query_with_tools: langgraph_main.py.

PreviewLength == 500

\* len() of a text: a part "long" stands for a text of 600 characters.
PartLen(part) ==
    CASE part = "long" -> 600
      [] part = "long[:500]" -> 500
      [] part = "..." -> 3
      [] OTHER -> 10

RECURSIVE TextLen(_)
TextLen(text) ==
    IF text = <<>> THEN 0 ELSE PartLen(text[1]) + TextLen(Tail(text))

\* A preview that keeps the whole content.
Preview_whole(content) == content

\* content[:500] + "..." if len(content) > 500 else content
Preview(content) ==
    IF TextLen(content) > PreviewLength THEN <<"long[:500]", "...">> ELSE content

HasToolCalls(msg) ==
    /\ msg.cls = "AIMessage"
    /\ "tool_calls" \in DOMAIN msg
    /\ msg.tool_calls # <<>>

execution_start(now, query) ==
    [type |-> "execution_start", timestamp |-> now, query |-> query,
     agent_type |-> "custom_agent"]

agent_execution(now, messages) ==
    [type |-> "agent_execution", timestamp |-> now,
     input_messages |-> Len(messages), result_type |-> "dict"]

execution_overview(now, final_messages) ==
    [type |-> "execution_overview", step |-> 1,
     total_messages |-> Len(final_messages), timestamp |-> now,
     message_flow |-> [i \in DOMAIN final_messages |->
        [index |-> i - 1,
         type |-> final_messages[i].cls,
         content_length |-> TextLen(final_messages[i].content),
         has_tool_calls |-> HasToolCalls(final_messages[i]),
         tool_call_count |-> IF "tool_calls" \in DOMAIN final_messages[i]
                             THEN Len(final_messages[i].tool_calls) ELSE 0]]]

tool_info_called(final_messages, i, tool_call, now) ==
    [tool_name |-> tool_call.name, call_id |-> tool_call.id,
     arguments |-> tool_call.args, timestamp |-> now, status |-> "called"]

\* tool_info of one tool call of final_messages[i]: completed, with the
\* preview of the response, when a later ToolMessage answers the call's id.
tool_info(final_messages, i, tool_call, now) ==
    LET called == [tool_name |-> tool_call.name, call_id |-> tool_call.id,
                   arguments |-> tool_call.args, timestamp |-> now,
                   status |-> "called"]
        answers == {j \in (i + 1)..Len(final_messages) :
                       /\ final_messages[j].cls = "ToolMessage"
                       /\ final_messages[j].tool_call_id = tool_call.id}
    IN IF answers = {} THEN called
       ELSE [called EXCEPT !.status = "completed"]
            @@ [response |-> Preview(final_messages[SetMin(answers)].content)]

\* The tool records of the messages from index i on, in message order and
\* then call order.
RECURSIVE ExtractTools(_, _, _)
ExtractTools(final_messages, i, now) ==
    IF i > Len(final_messages) THEN <<>>
    ELSE (IF HasToolCalls(final_messages[i])
          THEN [c \in DOMAIN final_messages[i].tool_calls |->
                   tool_info(final_messages, i, final_messages[i].tool_calls[c], now)]
          ELSE <<>>)
         \o ExtractTools(final_messages, i + 1, now)

\* What run_agent_query_with_tools returns when agent.invoke returned
\* result["messages"] = final_messages; logs are the entries so far.
RunReturns(logs, messages, final_messages, now) ==
    LET final_response ==
            IF final_messages # <<>> /\ Last(final_messages).cls = "AIMessage"
            THEN Last(final_messages).content ELSE <<>>
    IN [response |-> IF final_response = <<>> THEN <<"No response generated">>
                     ELSE final_response,
        tools_used |-> ExtractTools(final_messages, 1, now),
        execution_logs |-> logs \o <<agent_execution(now, messages),
                                     execution_overview(now, final_messages)>>]

\* A handler of run_agent_query_with_tools that returns without logging.
RunRaises_unlogged(logs, e, now) ==
    [response |-> <<"Error executing agent query: ", e>>,
     tools_used |-> <<>>,
     execution_logs |-> logs]

\* What it returns when agent.invoke raised an exception with text e.
RunRaises(logs, e, now) ==
    LET error_msg == <<"Error executing agent query: ", e>>
    IN [response |-> error_msg,
        tools_used |-> <<>>,
        execution_logs |-> Append(logs, [type |-> "error", step |-> Len(logs) + 1,
                                          error |-> error_msg, timestamp |-> now])]

\* What it returns when agent.invoke returned final_messages and the loop
\* that extracts the tool records raised e: the entries logged so far and
\* the error entry; the records already in tools_used are not returned.
RunAnalysisRaises(logs, messages, final_messages, e, now) ==
    RunRaises(logs \o <<agent_execution(now, messages),
                        execution_overview(now, final_messages)>>, e, now)

----------------------------------------------------------------------------
\* The chat-input handler's branches and merges: streamlit_app.py.

NoToolsResponse ==
    <<"No tools are enabled. Please enable at least one tool in the Tool Management section.">>

\* The branch taken when no tool is enabled: the conversation's messages
\* and the handler's locals afterwards.
no_tools_branch(messages) ==
    [messages |-> Append(messages, AIMessage(NoToolsResponse)),
     response |-> NoToolsResponse,
     new_tools_used |-> <<>>,
     execution_logs |-> <<[type |-> "error", message |-> <<"No tools enabled">>]>>]

\* The else branch, once run_agent_query_with_tools has returned run.
agent_branch(messages, run) ==
    [messages |-> Append(messages, AIMessage(run.response)),
     response |-> run.response,
     new_tools_used |-> run.tools_used,
     execution_logs |-> run.execution_logs]

except_branch_silent(messages, e) ==
    [messages |-> messages,
     response |-> <<"Error: ", e>>,
     new_tools_used |-> <<>>,
     execution_logs |-> <<[type |-> "error", message |-> <<e>>]>>]

except_branch_unlogged(messages, e) ==
    [messages |-> Append(messages, AIMessage(<<"Error: ", e>>)),
     response |-> <<"Error: ", e>>,
     new_tools_used |-> <<>>,
     execution_logs |-> <<>>]

\* except Exception as e: of the handler.
except_branch(messages, e) ==
    [messages |-> Append(messages, AIMessage(<<"Error: ", e>>)),
     response |-> <<"Error: ", e>>,
     new_tools_used |-> <<>>,
     execution_logs |-> <<[type |-> "error", message |-> <<e>>]>>]

\* A timing entry that names no tool.
timing_entry_no_tools(prompt, query_start_time, query_end_time, new_tools_used) ==
    [type |-> "query_timing",
     query |-> prompt,
     timestamp |-> query_start_time,
     start_time |-> query_start_time,
     end_time |-> query_end_time,
     duration_seconds |-> query_end_time - query_start_time,
     tools_used |-> <<>>]

timing_entry(prompt, query_start_time, query_end_time, new_tools_used) ==
    [type |-> "query_timing",
     query |-> prompt,
     timestamp |-> query_start_time,
     start_time |-> query_start_time,
     end_time |-> query_end_time,
     duration_seconds |-> query_end_time - query_start_time,
     tools_used |-> [i \in DOMAIN new_tools_used |-> new_tools_used[i].tool_name]]

\* json.dumps(log_entry, sort_keys=True): equal for equal entries only.
build_log_signature(log_entry) == log_entry

RECURSIVE filtered_new_logs(_, _)
filtered_new_logs(execution_logs, signatures) ==
    IF execution_logs = <<>> THEN <<>>
    ELSE LET signature == build_log_signature(Head(execution_logs))
         IN IF signature \notin signatures
            THEN <<Head(execution_logs)>>
                 \o filtered_new_logs(Tail(execution_logs), signatures \cup {signature})
            ELSE filtered_new_logs(Tail(execution_logs), signatures)

combined_logs(existing_logs, execution_logs) ==
    existing_logs
    \o filtered_new_logs(execution_logs,
           {build_log_signature(existing_logs[i]) : i \in DOMAIN existing_logs})

existing_tool_ids_none(existing_tools) == {}

\* {tool.get("call_id") for tool in existing_tools if tool.get("call_id")}
existing_tool_ids(existing_tools) ==
    {existing_tools[i].call_id : i \in DOMAIN existing_tools} \ {""}

with_timestamp(tool, now) ==
    IF "timestamp" \in DOMAIN tool THEN tool ELSE tool @@ [timestamp |-> now]

RECURSIVE filtered_new_tools_all(_, _, _)
filtered_new_tools_all(new_tools_used, ids, now) ==
    IF new_tools_used = <<>> THEN <<>>
    ELSE <<with_timestamp(Head(new_tools_used), now)>>
         \o filtered_new_tools_all(Tail(new_tools_used), ids, now)

\* The loop over new_tools_used: a record whose call_id is set and already
\* known is skipped; every other record is kept, and its id is known from
\* then on.
RECURSIVE filtered_new_tools(_, _, _)
filtered_new_tools(new_tools_used, ids, now) ==
    IF new_tools_used = <<>> THEN <<>>
    ELSE LET tool == Head(new_tools_used)
             call_id == tool.call_id
         IN IF call_id # "" /\ call_id \in ids
            THEN filtered_new_tools(Tail(new_tools_used), ids, now)
            ELSE <<with_timestamp(tool, now)>>
                 \o filtered_new_tools(Tail(new_tools_used),
                        IF call_id # "" THEN ids \cup {call_id} ELSE ids, now)

\* A merge that puts the new records in front.
combined_tools_newest_first(existing_tools, new_tools_used, now) ==
    filtered_new_tools(new_tools_used, existing_tool_ids(existing_tools), now)
    \o existing_tools

combined_tools(existing_tools, new_tools_used, now) ==
    existing_tools
    \o filtered_new_tools(new_tools_used, existing_tool_ids(existing_tools), now)

update_current_conversation_unsaved(convs, files, conv_id, conv) ==
    IF conv_id # NoConv /\ conv_id \in DOMAIN convs
    THEN [conversations |-> [convs EXCEPT ![conv_id] = conv], disk |-> files]
    ELSE [conversations |-> convs, disk |-> files]

\* update_current_conversation, given the conversation with the new
\* messages, tools_used and execution_logs: it is stored and saved.
update_current_conversation(convs, files, conv_id, conv) ==
    IF conv_id # NoConv /\ conv_id \in DOMAIN convs
    THEN LET updated == [convs EXCEPT ![conv_id] = conv]
         IN [conversations |-> updated,
             disk |-> save_conversation(files, conv_id, updated)]
    ELSE [conversations |-> convs, disk |-> files]

----------------------------------------------------------------------------
\* The access configuration: tools/config.py.  A list of names is the set
\* of its names.

Docs == {"a.pdf", "b.pdf"}
Databases == {"chinook", "employees"}

db_paths ==
    [db_name \in {"chinook", "employees", "projects"} |->
        CASE db_name = "chinook" -> "Chinook.db"
          [] db_name = "employees" -> "database/softwareone_employees.db"
          [] db_name = "projects" -> "database/softwareone_projects.db"]

DEFAULT_CONFIG ==
    [enabled_documents |-> {}, enabled_databases |-> {},
     document_sources |-> <<>>, database_mappings |-> db_paths]

\* load_config(): the configuration the file holds; the defaults when
\* json.load raises, as on a file that open(.., 'w') has just emptied.
load_config(file) ==
    IF file = Truncated THEN DEFAULT_CONFIG ELSE file

get_enabled_documents(file) == load_config(file).enabled_documents
is_database_enabled(file, db_name) == db_name \in load_config(file).enabled_databases

\* The processes that update the configuration: the file panel of a UI
\* session and the ingestion script.
Writers == {"ui", "ingest"}
Keys == {"enabled_documents", "enabled_databases"}
NoUpdate == [at |-> "idle", key |-> "", config |-> DEFAULT_CONFIG]

\* The file as the import of tools.config leaves it, and no update under way.
NoUpdates ==
    [file |-> DEFAULT_CONFIG, saved |-> DEFAULT_CONFIG,
     update |-> [w \in Writers |-> NoUpdate]]

----------------------------------------------------------------------------
\* The retrieval adapters: tools/SQLTool.py and tools/DocumentTool.py.
\* events lists, in order, what a call reads and touches.

NotEnabled(database) ==
    <<"Database '", database,
      "' is not enabled for access. Please enable it in the file management panel.">>

\* _get_database(db_name), given the connections of the cache and whether
\* the database file exists.
get_database(db_name, databases, exists) ==
    IF db_name \in databases
    THEN [raised |-> "", events |-> <<>>, databases |-> databases]
    ELSE IF db_name \notin DOMAIN db_paths
    THEN [raised |-> "Unknown database", events |-> <<>>, databases |-> databases]
    ELSE IF ~exists
    THEN [raised |-> "Database file not found",
          events |-> <<<<"stat", db_name>>>>, databases |-> databases]
    ELSE [raised |-> "",
          events |-> <<<<"stat", db_name>>, <<"open", db_name>>>>,
          databases |-> databases \cup {db_name}]

\* sql_retrieval(query, database): sql says whether the query starts
\* with SELECT or WITH.
sql_retrieval(file, query, sql, database, databases, exists) ==
    IF ~is_database_enabled(file, database)
    THEN [result |-> NotEnabled(database),
          events |-> <<<<"load_config">>>>,
          databases |-> databases]
    ELSE LET db == get_database(database, databases, exists)
         IN IF db.raised # ""
            THEN [result |-> <<"Error executing SQL query: ", db.raised>>,
                  events |-> <<<<"load_config">>>> \o db.events,
                  databases |-> db.databases]
            ELSE IF sql
            THEN [result |-> <<"Query executed successfully. Results:\n", database, query>>,
                  events |-> <<<<"load_config">>>> \o db.events
                             \o <<<<"query", database>>>>,
                  databases |-> db.databases]
            ELSE [result |-> <<"Generated SQL: ", query, "\n\nResults:\n", database>>,
                  events |-> <<<<"load_config">>>> \o db.events
                             \o <<<<"schema", database>>, <<"llm">>,
                                  <<"query", database>>>>,
                  databases |-> db.databases]

\* A filter that keeps the first three sections, whatever their source.
filtered_results_any(raw_results, enabled_docs, kept) ==
    SubSeq(raw_results, 1, IF Len(raw_results) < 3 THEN Len(raw_results) ELSE 3)

\* The sections of raw_results that the filter keeps: those whose source
\* is an enabled document, up to three.
RECURSIVE filtered_results(_, _, _)
filtered_results(raw_results, enabled_docs, kept) ==
    IF raw_results = <<>> \/ kept >= 3 THEN <<>>
    ELSE LET result == Head(raw_results)
         IN IF result.source # "" /\ result.source \in enabled_docs
            THEN <<result>> \o filtered_results(Tail(raw_results), enabled_docs, kept + 1)
            ELSE filtered_results(Tail(raw_results), enabled_docs, kept)

\* document_retrieval(query): vector_store is the module's global, ntotal
\* the size of the index, raw_results what similarity_search gives.
document_retrieval(file, query, vector_store, ntotal, raw_results) ==
    LET init == IF vector_store = "none" THEN <<<<"load_index">>>> ELSE <<>>
        enabled_docs == get_enabled_documents(file)
        kept == filtered_results(raw_results, enabled_docs, 0)
    IN IF ntotal = 0
       THEN [result |-> <<"No documents have been ingested yet. Please run the document ingestion process first.">>,
             sections |-> <<>>, events |-> init]
       ELSE IF enabled_docs = {}
       THEN [result |-> <<"No documents are currently enabled for searching. Please enable documents in the file management panel.">>,
             sections |-> <<>>, events |-> init \o <<<<"load_config">>>>]
       ELSE IF raw_results = <<>>
       THEN [result |-> <<"No relevant documents found for query: '", query, "'">>,
             sections |-> <<>>,
             events |-> init \o <<<<"load_config">>, <<"search">>>>]
       ELSE IF kept = <<>>
       THEN [result |-> <<"No results found in enabled documents for query: '", query,
                          "'. Try enabling more documents or check the query.">>,
             sections |-> <<>>,
             events |-> init \o <<<<"load_config">>, <<"search">>>>]
       ELSE [result |-> <<"Found ", Len(kept),
                          " relevant document sections from enabled sources:\n\n">>,
             sections |-> kept,
             events |-> init \o <<<<"load_config">>, <<"search">>>>]

\* No adapter has been called: no index loaded, no database open.
NoCalls ==
    [vector_store |-> "none", ntotal |-> 0, databases |-> {}, tool |-> "",
     database |-> "",
     events |-> <<>>, result |-> <<>>, sections |-> <<>>]

----------------------------------------------------------------------------
\* The explicit-routing graph: langgraph-main.py.  Its four tools are the
\* stubs of that file; a graph state is the dict of the keys it holds.

Questions == {"q1", "q2"}
ToolChoices == Tools \cup {"", "calculator"}

\* A router that sends every other choice to the code tool.
router_decision_code_default(state) ==
    LET tool_choice == IF "tool_choice" \in DOMAIN state THEN state.tool_choice ELSE ""
    IN IF tool_choice = "search_web" THEN "search_web"
       ELSE IF tool_choice = "document_retrieval" THEN "document_retrieval"
       ELSE IF tool_choice = "sql_retrieval" THEN "sql_retrieval"
       ELSE "run_code"

\* router_decision(state)
router_decision(state) ==
    LET tool_choice == IF "tool_choice" \in DOMAIN state THEN state.tool_choice ELSE ""
    IN IF tool_choice = "search_web" THEN "search_web"
       ELSE IF tool_choice = "document_retrieval" THEN "document_retrieval"
       ELSE IF tool_choice = "sql_retrieval" THEN "sql_retrieval"
       ELSE IF tool_choice = "run_code" THEN "run_code"
       ELSE "generate_final_answer"

\* What the stub of a tool returns for a query.
stub(name, query) ==
    CASE name = "search_web" -> <<"I found this information for you: ", query>>
      [] name = "document_retrieval" -> <<"I found this document for you: ", query>>
      [] name = "sql_retrieval" -> <<"I found this sql for you: ", query>>
      [] name = "run_code" -> <<"I ran the code and got this result: ", query>>

\* The calls of  <tool>.invoke(state["question"])  in the node of a tool:
\* run_rag_tool has one, in the assignment; run_search_tool, run_sql_tool
\* and run_code_tool have one as a statement and one in the assignment.
invokes(name) == IF name = "document_retrieval" THEN 1 ELSE 2

\* run_search_tool, run_rag_tool, run_sql_tool, run_code_tool: the state
\* returned, with the result of the last call of the tool under
\* tool_output, and the invocations of each tool so far.
run_tool_node(name, state, invocations) ==
    [state |-> ("tool_output" :> stub(name, state.question)) @@ state,
     invocations |-> [invocations EXCEPT ![name] = @ + invokes(name)]]

\* generate_final_answer(state): state["tool_output"] raises KeyError when
\* the state has no such key; otherwise the model's answer to the question
\* and the tool output is put under generation.
generate_final_answer_raises(state) == "tool_output" \notin DOMAIN state

generate_final_answer(state) ==
    ("generation" :> (<<"answer to ">> \o <<state.question, " ">>
                      \o state.tool_output)) @@ state

\* No run of the graph yet.
NoRun ==
    [node |-> "none", state |-> <<>>, nodes_run |-> <<>>,
     invocations |-> [name \in Tools |-> 0], runs |-> 0]

----------------------------------------------------------------------------
\* A UI session starts: session state is initialised, the session files
\* are loaded, and a conversation is created when there is none.

AllEnabled == [name \in Tools |-> TRUE]

\* The conversation that sorts first by created_at, newest first.
MostRecent(convs) ==
    CHOOSE c \in DOMAIN convs :
        \A d \in DOMAIN convs : convs[d].created_at <= convs[c].created_at

SessionStart(files, now) ==
    LET loaded == load_conversations_from_disk(files)
        numeric_ids == {c[2] : c \in DOMAIN loaded}
        counter == IF numeric_ids = {} \/ SetMax(numeric_ids) + 1 < 1
                   THEN 1 ELSE SetMax(numeric_ids) + 1
    IN IF DOMAIN loaded # {}
       THEN [conversations |-> loaded,
             current_conversation_id |-> MostRecent(loaded),
             conversation_counter |-> counter,
             disk |-> files,
             created |-> FALSE]
       ELSE LET conv_id == ConvId(counter)
                convs == (conv_id :> EmptyConversation(now))
            IN [conversations |-> convs,
                current_conversation_id |-> conv_id,
                conversation_counter |-> counter + 1,
                disk |-> save_conversation(files, conv_id, convs),
                created |-> TRUE]

NoTurn ==
    [prompt |-> "", query_start_time |-> 0,
     existing_tools |-> <<>>, existing_logs |-> <<>>,
     enabled_tool_functions |-> <<>>,
     response |-> <<>>, new_tools_used |-> <<>>, execution_logs |-> <<>>,
     outcome |-> "none", error |-> "",
     adapter_calls |-> 0, llm_calls |-> 0, agents_created |-> 0,
     raised |-> {}, save_error |-> ""]

\* What is kept of the locals of a turn that has ended.
TurnEnded(t) ==
    [NoTurn EXCEPT !.prompt = t.prompt, !.outcome = t.outcome,
                   !.error = t.error, !.raised = t.raised,
                   !.save_error = t.save_error]

NoAgent == [tools |-> <<>>, system_prompt |-> <<>>, messages |-> <<>>, logs |-> <<>>]

\* A second browser session that has not opened the page yet.
NoPeer ==
    [started |-> FALSE, conversations |-> <<>>, current_conversation_id |-> NoConv,
     conversation_counter |-> 1, tool_toggles |-> AllEnabled, queries |-> <<>>,
     skipped |-> {}]

Init ==
    LET start == SessionStart(<<>>, 0)
    IN /\ conversations = start.conversations
       /\ current_conversation_id = start.current_conversation_id
       /\ conversation_counter = start.conversation_counter
       /\ disk = start.disk
       /\ tool_toggles = AllEnabled
       /\ imported = {}
       /\ clock = 1
       /\ pc = "idle"
       /\ turn = NoTurn
       /\ agent = NoAgent
       /\ queries = [c \in DOMAIN start.conversations |-> 0]
       /\ pending = "none"
       /\ peer = NoPeer
       /\ deleted = {}
       /\ config = NoUpdates
       /\ adapter = NoCalls
       /\ graph = NoRun

----------------------------------------------------------------------------
\* The chat-input handler, step by step.  pc is "idle" between turns,
\* "submitted" once the query is appended and saved, "invoking" while
\* agent.invoke runs, "hung" when an adapter never returns, "composed" once
\* the reply is appended, and "idle" again after the merge and the save.

cur == current_conversation_id

\* What a call of save_conversation(conv_id) leaves on the medium, given
\* the files before it and the files a complete write gives.  io is what
\* the medium does: "ok", the file is written; "opened", open(.., "w") has
\* emptied the file and json.dump has not run yet; "open_fails", open raises
\* OSError, which is swallowed; "raises", ensure_logs_dir raises.
file_write(before, after, conv_id, io) ==
    CASE io = "ok" -> after
      [] io = "opened" -> (conv_id :> Truncated) @@ before
      [] io = "open_fails" -> before
      [] io = "raises" -> before

\* What the turn records of the save: an OSError passed over, or the
\* exception of ensure_logs_dir, which nothing catches.
save_outcome(io) ==
    CASE io = "ok" -> ""
      [] io = "opened" -> ""
      [] io = "open_fails" -> "swallowed"
      [] io = "raises" -> "raised"

\* if prompt := st.chat_input(...): the query is appended and saved, the
\* locals are initialised.
SubmitIO(prompt, io) ==
    /\ pc = "idle"
    /\ cur \in DOMAIN conversations
    /\ queries[cur] < MaxTurns
    /\ LET conv == conversations[cur]
           appended == [conv EXCEPT !.messages = Append(@, HumanMessage(<<prompt>>))]
           upd == update_current_conversation(conversations, disk, cur, appended)
       IN /\ conversations' = upd.conversations
          /\ disk' = file_write(disk, upd.disk, cur, io)
          /\ turn' = [NoTurn EXCEPT !.prompt = prompt,
                                    !.query_start_time = clock,
                                    !.existing_tools = conv.tools_used,
                                    !.existing_logs = conv.execution_logs,
                                    !.outcome = "running",
                                    !.save_error = save_outcome(io)]
    /\ queries' = [queries EXCEPT ![cur] = @ + 1]
    /\ clock' = clock + 1
    /\ pc' = CASE io = "opened" -> "writing_query"
              [] io = "raises" -> "idle"
              [] OTHER -> "submitted"
    /\ agent' = NoAgent
    /\ UNCHANGED <<current_conversation_id, conversation_counter, tool_toggles,
                   imported, pending, peer, deleted, config, adapter, graph>>

Submit(prompt) == SubmitIO(prompt, "ok")

\* A handler that stops for good after a turn that failed.
Compose_fatal(branch, outcome, e, t) ==
    /\ conversations' = [conversations EXCEPT ![cur].messages = branch.messages]
    /\ turn' = [t EXCEPT !.response = branch.response,
                         !.new_tools_used = branch.new_tools_used,
                         !.execution_logs = branch.execution_logs,
                         !.outcome = outcome,
                         !.error = e]
    /\ pc' = IF outcome = "answered" THEN "composed" ELSE "failed"

\* The reply of a branch is appended; the handler goes on to the merge.
Compose(branch, outcome, e, t) ==
    /\ conversations' = [conversations EXCEPT ![cur].messages = branch.messages]
    /\ turn' = [t EXCEPT !.response = branch.response,
                         !.new_tools_used = branch.new_tools_used,
                         !.execution_logs = branch.execution_logs,
                         !.outcome = outcome,
                         !.error = e]
    /\ pc' = "composed"

\* The first  from tools.SearchTool import search_web  of the process runs
\* the module: it invokes search_web, creates an agent and streams one
\* query through it.
AfterToolsImport(t) ==
    IF "tools.SearchTool" \in imported THEN t
    ELSE [t EXCEPT !.adapter_calls = @ + 1, !.agents_created = @ + 1, !.llm_calls = @ + 1]

\* get_enabled_tool_functions(): importing the tool modules raises.
RouteImportFails(e) ==
    /\ pc = "submitted"
    /\ "tools.SearchTool" \notin imported
    /\ Compose(except_branch(conversations[cur].messages, e), "exception", e, turn)
    /\ UNCHANGED <<current_conversation_id, conversation_counter, tool_toggles,
                   disk, imported, clock, agent, queries, pending, peer, deleted, config, adapter, graph>>

\* if not enabled_tool_functions:
RouteNoTools ==
    /\ pc = "submitted"
    /\ get_enabled_tool_functions(tool_toggles) = <<>>
    /\ imported' = imported \cup {"tools.SearchTool"}
    /\ Compose(no_tools_branch(conversations[cur].messages), "no_tools", "",
               AfterToolsImport(turn))
    /\ UNCHANGED <<current_conversation_id, conversation_counter, tool_toggles,
                   disk, clock, agent, queries, pending, peer, deleted, config, adapter, graph>>

\* else: the agent is created, run_agent_query_with_tools logs the start
\* and calls agent.invoke.
RouteCreateAgent ==
    /\ pc = "submitted"
    /\ LET enabled == get_enabled_tool_functions(tool_toggles)
           messages == <<HumanMessage(<<turn.prompt>>)>>
       IN /\ enabled # <<>>
          /\ agent' = create_agent_with_tools(enabled)
                      @@ [messages |-> messages,
                          logs |-> <<execution_start(clock, turn.prompt)>>]
          /\ turn' = [AfterToolsImport(turn)
                         EXCEPT !.enabled_tool_functions = enabled,
                                !.agents_created = @ + 1]
    /\ imported' = imported \cup {"tools.SearchTool"}
    /\ clock' = clock + 1
    /\ pc' = "invoking"
    /\ UNCHANGED <<conversations, current_conversation_id, conversation_counter,
                   tool_toggles, disk, queries, pending, peer, deleted, config, adapter, graph>>

\* else: importing langgraph_main or creating the agent raises.
RouteCreateFails(e) ==
    /\ pc = "submitted"
    /\ get_enabled_tool_functions(tool_toggles) # <<>>
    /\ imported' = imported \cup {"tools.SearchTool"}
    /\ Compose(except_branch(conversations[cur].messages, e), "exception", e,
               [AfterToolsImport(turn) EXCEPT !.enabled_tool_functions =
                                                get_enabled_tool_functions(tool_toggles)])
    /\ UNCHANGED <<current_conversation_id, conversation_counter, tool_toggles,
                   disk, clock, agent, queries, pending, peer, deleted, config, adapter, graph>>

----------------------------------------------------------------------------
\* agent.invoke: the agent loop of create_agent.  The model is called; it
\* answers, or asks for a tool, whose adapter is then called and answered.

AwaitingTool == agent.messages # <<>> /\ HasToolCalls(Last(agent.messages))
PendingCall == Last(agent.messages).tool_calls[1]
NumCalls == Cardinality({i \in DOMAIN agent.messages : HasToolCalls(agent.messages[i])})

\* Adapters that let an exception out: search_web has no handler, and
\* document_retrieval prepares its store and reads the configuration
\* outside its handlers.  sql_retrieval and run_code return the error text.
RaisingTools == {"search_web", "document_retrieval"}

AdapterReturns(name) ==
    {ToolResult}
    \cup (IF name = "sql_retrieval"
          THEN {<<"Error executing SQL query: ", e>> : e \in Errors} ELSE {})
    \cup (IF name = "run_code"
          THEN {<<"Error executing code: ", e>> : e \in Errors} ELSE {})

\* The model asks for a tool the agent holds, in a run of limit calls at
\* most.
AgentCallsToolUpTo(name, id, limit) ==
    /\ pc = "invoking"
    /\ ~AwaitingTool
    /\ NumCalls < limit
    /\ \E i \in DOMAIN agent.tools : agent.tools[i] = name
    /\ agent' = [agent EXCEPT !.messages =
                    Append(@, AIToolMessage(<<>>, <<ToolCall(name, id)>>))]
    /\ turn' = [turn EXCEPT !.llm_calls = @ + 1]
    /\ UNCHANGED <<conversations, current_conversation_id, conversation_counter,
                   tool_toggles, disk, imported, clock, pc, queries, pending, peer, deleted, config, adapter, graph>>

AgentCallsTool(name, id) == AgentCallsToolUpTo(name, id, MaxCalls)

\* The adapter returns content, one of the texts in returns.
ToolReturnsFrom(content, returns) ==
    /\ pc = "invoking"
    /\ AwaitingTool
    /\ content \in returns
    /\ agent' = [agent EXCEPT !.messages = Append(@, ToolMessage(content, PendingCall.id))]
    /\ turn' = [turn EXCEPT !.adapter_calls = @ + 1]
    /\ UNCHANGED <<conversations, current_conversation_id, conversation_counter,
                   tool_toggles, disk, imported, clock, pc, queries, pending, peer, deleted, config, adapter, graph>>

ToolReturns(content) == ToolReturnsFrom(content, AdapterReturns(PendingCall.name))

\* A result of more than 500 characters.
LongResult == <<"long">>

\* The adapter raises and the agent's tool node answers the call with the
\* error text.
ToolRaisesHandled(e) ==
    /\ pc = "invoking"
    /\ AwaitingTool
    /\ PendingCall.name \in RaisingTools
    /\ agent' = [agent EXCEPT !.messages =
                    Append(@, ToolMessage(<<"Error: ", e>>, PendingCall.id))]
    /\ turn' = [turn EXCEPT !.adapter_calls = @ + 1, !.raised = @ \cup {e}]
    /\ UNCHANGED <<conversations, current_conversation_id, conversation_counter,
                   tool_toggles, disk, imported, clock, pc, queries, pending, peer, deleted, config, adapter, graph>>

\* The adapter raises and the exception leaves agent.invoke.
ToolRaisesPropagates(e) ==
    /\ pc = "invoking"
    /\ AwaitingTool
    /\ PendingCall.name \in RaisingTools
    /\ Compose(agent_branch(conversations[cur].messages, RunRaises(agent.logs, e, clock)),
               "agent_error", e,
               [turn EXCEPT !.adapter_calls = @ + 1, !.raised = @ \cup {e}])
    /\ clock' = clock + 1
    /\ UNCHANGED <<current_conversation_id, conversation_counter, tool_toggles,
                   disk, imported, agent, queries, pending, peer, deleted, config, adapter, graph>>

\* The adapter never returns: nothing bounds agent.invoke.
ToolHangs ==
    /\ pc = "invoking"
    /\ AwaitingTool
    /\ pc' = "hung"
    /\ turn' = [turn EXCEPT !.adapter_calls = @ + 1]
    /\ UNCHANGED <<conversations, current_conversation_id, conversation_counter,
                   tool_toggles, disk, imported, clock, agent, queries, pending, peer, deleted, config, adapter, graph>>

\* The model answers without a tool call: agent.invoke returns.
AgentAnswers(content) ==
    /\ pc = "invoking"
    /\ ~AwaitingTool
    /\ LET final_messages == Append(agent.messages, AIToolMessage(content, <<>>))
           run == RunReturns(agent.logs, <<HumanMessage(<<turn.prompt>>)>>,
                             final_messages, clock)
       IN /\ agent' = [agent EXCEPT !.messages = final_messages]
          /\ Compose(agent_branch(conversations[cur].messages, run), "answered", "",
                     [turn EXCEPT !.llm_calls = @ + 1])
    /\ clock' = clock + 1
    /\ UNCHANGED <<current_conversation_id, conversation_counter, tool_toggles,
                   disk, imported, queries, pending, peer, deleted, config, adapter, graph>>

\* The call of the model raises: the exception leaves agent.invoke.
AgentModelFails(e) ==
    /\ pc = "invoking"
    /\ ~AwaitingTool
    /\ Compose(agent_branch(conversations[cur].messages, RunRaises(agent.logs, e, clock)),
               "agent_error", e, [turn EXCEPT !.llm_calls = @ + 1])
    /\ clock' = clock + 1
    /\ UNCHANGED <<current_conversation_id, conversation_counter, tool_toggles,
                   disk, imported, agent, queries, pending, peer, deleted, config, adapter, graph>>

----------------------------------------------------------------------------
\* The timing entry, the merges and the save that end the turn.
PersistIO(io) ==
    /\ pc = "composed"
    /\ LET conv == conversations[cur]
           execution_logs ==
               Append(turn.execution_logs,
                      timing_entry(turn.prompt, turn.query_start_time, clock,
                                   turn.new_tools_used))
           merged == [conv EXCEPT
                        !.tools_used = combined_tools(turn.existing_tools,
                                                      turn.new_tools_used, clock),
                        !.execution_logs = combined_logs(turn.existing_logs,
                                                         execution_logs)]
           upd == update_current_conversation(conversations, disk, cur, merged)
       IN /\ conversations' = upd.conversations
          /\ disk' = file_write(disk, upd.disk, cur, io)
    /\ clock' = clock + 1
    /\ pc' = IF io = "opened" THEN "writing_turn" ELSE "idle"
    /\ agent' = NoAgent
    /\ turn' = IF io \in {"opened", "raises"}
               THEN [turn EXCEPT !.save_error = save_outcome(io)]
               ELSE [TurnEnded(turn) EXCEPT !.save_error =
                        IF turn.save_error = "" THEN save_outcome(io) ELSE turn.save_error]
    /\ UNCHANGED <<current_conversation_id, conversation_counter, tool_toggles,
                   imported, queries, pending, peer, deleted, config, adapter, graph>>

Persist == PersistIO("ok")

\* A checkbox of the settings page is flipped.
ToggleTool(name) ==
    /\ pc = "idle"
    /\ tool_toggles' = [tool_toggles EXCEPT ![name] = ~@]
    /\ UNCHANGED <<conversations, current_conversation_id, conversation_counter,
                   disk, imported, clock, pc, turn, agent, queries, pending, peer, deleted, config, adapter, graph>>

StartSession ==
    LET start == SessionStart(disk, clock)
    IN /\ conversations' = start.conversations
       /\ current_conversation_id' = start.current_conversation_id
       /\ conversation_counter' = start.conversation_counter
       /\ disk' = start.disk
       /\ clock' = IF start.created THEN clock + 1 ELSE clock
       /\ queries' = [c \in DOMAIN start.conversations |->
                         IF c \in DOMAIN queries THEN queries[c] ELSE 0]
       /\ tool_toggles' = AllEnabled
       /\ pc' = "idle"
       /\ agent' = NoAgent
       /\ UNCHANGED turn

\* The browser opens a new session of the running process.
NewSession ==
    /\ pc = "idle"
    /\ StartSession
    /\ UNCHANGED <<imported, pending, peer, deleted, config, adapter, graph>>

HandlerStep ==
    \/ \E e \in Errors : RouteImportFails(e)
    \/ RouteNoTools
    \/ RouteCreateAgent
    \/ \E e \in Errors : RouteCreateFails(e)
    \/ \E name \in Tools, id \in CallIds : AgentCallsTool(name, id)
    \/ \E content \in UNION {AdapterReturns(name) : name \in Tools} : ToolReturns(content)
    \/ \E e \in Errors : ToolRaisesHandled(e)
    \/ \E e \in Errors : ToolRaisesPropagates(e)
    \/ ToolHangs
    \/ \E content \in Answers : AgentAnswers(content)
    \/ \E e \in Errors : AgentModelFails(e)
    \/ Persist

Next ==
    \/ \E prompt \in Prompts : Submit(prompt)
    \/ HandlerStep
    \/ \E name \in Tools : ToggleTool(name)
    \/ NewSession

Spec == Init /\ [][Next]_vars

\* The handler runs to its end unless a call it waits for never returns.
FairSpec == Spec /\ WF_vars(HandlerStep)

----------------------------------------------------------------------------
\* The session store seen from outside the handler: save_conversation
\* opens the session file with mode "w", which empties it, and writes the
\* document afterwards; the process may be killed, and a second browser
\* session may load the files, at any moment.  The medium may also refuse
\* a save.

SubmitOpens(prompt) == SubmitIO(prompt, "opened")
SubmitOpenFails(prompt) == SubmitIO(prompt, "open_fails")
SubmitRaises(prompt) == SubmitIO(prompt, "raises")

PersistOpens == PersistIO("opened")
PersistOpenFails == PersistIO("open_fails")
PersistRaises == PersistIO("raises")

Writing == pc \in {"writing_query", "writing_turn"}

\* The handler after the with-block of save_conversation.
AfterWrite(save_error) ==
    /\ pc' = IF pc = "writing_query" THEN "submitted" ELSE "idle"
    /\ turn' = IF pc = "writing_query"
               THEN [turn EXCEPT !.save_error = save_error]
               ELSE TurnEnded([turn EXCEPT !.save_error = save_error])
    /\ UNCHANGED <<conversations, current_conversation_id, conversation_counter,
                   tool_toggles, imported, clock, agent, queries, pending, peer, deleted, config, adapter, graph>>

\* json.dump writes the document and the file is closed.
WriteCompletes ==
    /\ Writing
    /\ disk' = save_conversation(disk, cur, conversations)
    /\ AfterWrite(turn.save_error)

\* json.dump raises OSError: the file stays as open left it.
WriteFails ==
    /\ Writing
    /\ disk' = (cur :> Truncated) @@ disk
    /\ AfterWrite("swallowed")

\* The process is killed and started again; a browser session opens.
Crash ==
    LET start == SessionStart(disk, clock)
    IN /\ conversations' = start.conversations
       /\ current_conversation_id' = start.current_conversation_id
       /\ conversation_counter' = start.conversation_counter
       /\ disk' = start.disk
       /\ clock' = IF start.created THEN clock + 1 ELSE clock
       /\ queries' = [c \in DOMAIN start.conversations |->
                         IF c \in DOMAIN queries THEN queries[c] ELSE 0]
       /\ tool_toggles' = AllEnabled
       /\ imported' = {}
       /\ pc' = "idle"
       /\ turn' = [NoTurn EXCEPT !.outcome = "killed"]
       /\ agent' = NoAgent
       /\ pending' = "none"
       /\ peer' = NoPeer
       /\ UNCHANGED <<deleted, config, adapter, graph>>

\* The queries a conversation holds.
HumanCount(messages) ==
    Cardinality({i \in DOMAIN messages : messages[i].cls = "HumanMessage"})

\* A second browser session opens the page: it loads the session files,
\* and creates a conversation when it has loaded none.
PeerStart ==
    /\ ~peer.started
    /\ LET start == SessionStart(disk, clock)
       IN /\ peer' = [started |-> TRUE,
                      conversations |-> start.conversations,
                      current_conversation_id |-> start.current_conversation_id,
                      conversation_counter |-> start.conversation_counter,
                      tool_toggles |-> AllEnabled,
                      queries |-> [c \in DOMAIN start.conversations |->
                                     HumanCount(start.conversations[c].messages)],
                      skipped |-> skipped(disk)]
          /\ disk' = start.disk
          /\ clock' = IF start.created THEN clock + 1 ELSE clock
    /\ UNCHANGED <<conversations, current_conversation_id, conversation_counter,
                   tool_toggles, imported, pc, turn, agent, queries, pending,
                   deleted, config, adapter, graph>>

\* The agent run of the turn, with one tool to call.
AgentRun ==
    \/ RouteCreateAgent
    \/ AgentCallsTool("search_web", "c1")
    \/ ToolReturns(ToolResult)
    \/ \E content \in Answers : AgentAnswers(content)
    \/ \E e \in Errors : AgentModelFails(e)

\* A medium that takes every write, written to in two steps.
StoreNext ==
    \/ \E prompt \in Prompts : SubmitOpens(prompt)
    \/ WriteCompletes
    \/ AgentRun
    \/ PersistOpens
    \/ Crash
    \/ PeerStart

StoreSpec == Init /\ [][StoreNext]_vars

\* A medium that may refuse a write.
FaultyNext ==
    \/ \E prompt \in Prompts :
          \/ SubmitOpens(prompt)
          \/ SubmitOpenFails(prompt)
          \/ SubmitRaises(prompt)
    \/ WriteCompletes
    \/ WriteFails
    \/ AgentRun
    \/ PersistOpens
    \/ PersistOpenFails
    \/ PersistRaises

FaultySpec == Init /\ [][FaultyNext]_vars

----------------------------------------------------------------------------
\* Conversation management in the sidebar, and two browser sessions of one
\* server process over the same logs/ directory.

\* The files after delete_conversation_log(conv_id): the file is unlinked,
\* or unlink raises OSError and the function returns without a word.
delete_conversation_log(files, conv_id, io) ==
    IF io = "ok"
    THEN [f \in DOMAIN files \ {conv_id} |-> files[f]]
    ELSE files

\* A create_new_conversation that leaves the counter as it is.
create_new_conversation_same_counter(convs, files, counter, now) ==
    LET conv_id == ConvId(counter)
        created == (conv_id :> EmptyConversation(now)) @@ convs
    IN [conv_id |-> conv_id,
        conversations |-> created,
        conversation_counter |-> counter,
        disk |-> save_conversation(files, conv_id, created)]

\* The session after create_new_conversation().
create_new_conversation(convs, files, counter, now) ==
    LET conv_id == ConvId(counter)
        created == (conv_id :> EmptyConversation(now)) @@ convs
    IN [conv_id |-> conv_id,
        conversations |-> created,
        conversation_counter |-> counter + 1,
        disk |-> save_conversation(files, conv_id, created)]

\* The "New Conversation" button.
NewConversation ==
    /\ pc = "idle"
    /\ conversation_counter <= MaxConversations
    /\ LET new == create_new_conversation(conversations, disk,
                                          conversation_counter, clock)
       IN /\ conversations' = new.conversations
          /\ conversation_counter' = new.conversation_counter
          /\ disk' = new.disk
          /\ current_conversation_id' = new.conv_id
          /\ queries' = (new.conv_id :> 0) @@ queries
    /\ clock' = clock + 1
    /\ UNCHANGED <<tool_toggles, imported, pc, turn, agent, pending, peer,
                   deleted, config, adapter, graph>>

\* The button of a conversation in the list.
SelectConversation(conv_id) ==
    /\ pc = "idle"
    /\ conv_id \in DOMAIN conversations
    /\ conv_id # current_conversation_id
    /\ current_conversation_id' = conv_id
    /\ UNCHANGED <<conversations, conversation_counter, tool_toggles, disk,
                   imported, clock, pc, turn, agent, queries, pending, peer,
                   deleted, config, adapter, graph>>

\* The delete button of a conversation, and the rerun it asks for: the entry
\* is deleted from the session, then its file; when the current conversation
\* was deleted another one becomes current (the first key of the dict, any
\* of them here), and when none is left the rerun creates one.
DeleteIO(conv_id, io) ==
    /\ pc = "idle"
    /\ conv_id \in DOMAIN conversations
    /\ LET remaining == [c \in DOMAIN conversations \ {conv_id} |->
                            conversations[c]]
           files == delete_conversation_log(disk, conv_id, io)
       IN IF DOMAIN remaining # {}
          THEN /\ conversations' = remaining
               /\ current_conversation_id' \in
                     IF current_conversation_id = conv_id
                     THEN DOMAIN remaining
                     ELSE {current_conversation_id}
               /\ disk' = files
               /\ queries' = [c \in DOMAIN remaining |-> queries[c]]
               /\ UNCHANGED <<conversation_counter, clock>>
          ELSE /\ conversation_counter <= MaxConversations
               /\ LET new == create_new_conversation(remaining, files,
                                                     conversation_counter, clock)
                  IN /\ conversations' = new.conversations
                     /\ conversation_counter' = new.conversation_counter
                     /\ disk' = new.disk
                     /\ current_conversation_id' = new.conv_id
                     /\ queries' = (new.conv_id :> 0)
               /\ clock' = clock + 1
    /\ deleted' = deleted \cup {[conversation_id |-> conv_id,
                                 created_at |-> conversations[conv_id].created_at]}
    /\ UNCHANGED <<tool_toggles, imported, pc, turn, agent, pending, peer,
                   config, adapter, graph>>

DeleteConversation(conv_id) == DeleteIO(conv_id, "ok")
DeleteUnlinkFails(conv_id) == DeleteIO(conv_id, "unlink_fails")

\* The script runs of the two sessions take turns on the server: the other
\* browser session becomes the one that acts.
SwitchSession ==
    /\ pc = "idle"
    /\ peer.started
    /\ conversations' = peer.conversations
    /\ current_conversation_id' = peer.current_conversation_id
    /\ conversation_counter' = peer.conversation_counter
    /\ tool_toggles' = peer.tool_toggles
    /\ queries' = peer.queries
    /\ peer' = [started |-> TRUE,
                conversations |-> conversations,
                current_conversation_id |-> current_conversation_id,
                conversation_counter |-> conversation_counter,
                tool_toggles |-> tool_toggles,
                queries |-> queries,
                skipped |-> peer.skipped]
    /\ turn' = NoTurn
    /\ UNCHANGED <<disk, imported, clock, pc, agent, pending, deleted, config, adapter, graph>>

\* The first turn of a session, without tool calls.
FirstTurn ==
    \/ /\ \A c \in DOMAIN queries : queries[c] = 0
       /\ \E prompt \in Prompts : Submit(prompt)
    \/ RouteCreateAgent
    \/ AgentAnswers(<<"answer">>)
    \/ Persist

SessionsNext ==
    \/ FirstTurn
    \/ NewConversation
    \/ \E conv_id \in DOMAIN conversations :
          \/ SelectConversation(conv_id)
          \/ DeleteConversation(conv_id)
          \/ DeleteUnlinkFails(conv_id)
    \/ PeerStart
    \/ SwitchSession

SessionsSpec == Init /\ [][SessionsNext]_vars

----------------------------------------------------------------------------
\* The user leaves a turn that is under way.  A click on a widget asks for
\* a rerun of the script, the Stop button or closing the page asks for its
\* end; either waits until the running script reaches a call that draws on
\* the page, and the script ends there.  The handler draws after the query
\* is saved (st.chat_message, st.write, entering st.spinner) and when
\* st.spinner is left, and no more before the save: nothing is drawn while
\* agent.invoke runs.

\* What the user may ask for: the checkbox of a tool on the settings page,
\* or the end of the script.
Events == Tools \cup {"stop"}

Click(ev) ==
    /\ pc \in {"submitted", "invoking"}
    /\ pending = "none"
    /\ pending' = ev
    /\ UNCHANGED <<conversations, current_conversation_id, conversation_counter,
                   tool_toggles, disk, imported, clock, pc, turn, agent, queries,
                   peer, deleted, config, adapter, graph>>

\* The script ends at the call that draws; the locals of the turn are
\* gone, and the rerun that follows writes the checkbox into tool_toggles.
Interrupted ==
    /\ pc \in {"submitted", "composed"}
    /\ pending # "none"
    /\ pc' = "idle"
    /\ tool_toggles' = IF pending \in Tools
                       THEN [tool_toggles EXCEPT ![pending] = ~@]
                       ELSE tool_toggles
    /\ pending' = "none"
    /\ agent' = NoAgent
    /\ turn' = [TurnEnded(turn) EXCEPT !.outcome = "abandoned"]
    /\ UNCHANGED <<conversations, current_conversation_id, conversation_counter,
                   disk, imported, clock, queries, peer, deleted, config, adapter, graph>>

\* The steps of the handler that follow a call that draws.
AfterDraw ==
    /\ pending = "none"
    /\ \/ RouteNoTools
       \/ RouteCreateAgent
       \/ Persist

AbandonNext ==
    \/ \E prompt \in Prompts : Submit(prompt)
    \/ AfterDraw
    \/ AgentCallsTool("search_web", "c1")
    \/ ToolReturns(ToolResult)
    \/ \E content \in Answers : AgentAnswers(content)
    \/ \E ev \in Events : Click(ev)
    \/ Interrupted
    \/ \E name \in Tools : ToggleTool(name)

AbandonSpec == Init /\ [][AbandonNext]_vars

----------------------------------------------------------------------------
\* Turns that fail and turns that are answered, in one session: the steps
\* of the handler with one tool call at most, each of the ways a turn
\* fails, and the checkboxes.  No adapter hangs here, so the handler
\* always takes its next step.

FailureStep ==
    \/ \E e \in Errors : RouteImportFails(e)
    \/ RouteNoTools
    \/ RouteCreateAgent
    \/ \E e \in Errors : RouteCreateFails(e)
    \/ AgentCallsTool("search_web", "c1")
    \/ ToolReturns(ToolResult)
    \/ \E e \in Errors : ToolRaisesPropagates(e)
    \/ AgentAnswers(<<"answer">>)
    \/ \E e \in Errors : AgentModelFails(e)
    \/ Persist

FailureNext ==
    \/ \E prompt \in Prompts : Submit(prompt)
    \/ FailureStep
    \/ \E name \in Tools : ToggleTool(name)

FailureSpec == Init /\ [][FailureNext]_vars /\ WF_vars(FailureStep)

----------------------------------------------------------------------------
\* Turns whose agent may return a result that cannot be analysed.

\* agent.invoke returns, and a message of the result makes the extraction
\* of the tool records raise e.
AgentResultUnreadable(e) ==
    /\ pc = "invoking"
    /\ ~AwaitingTool
    /\ LET final_messages == Append(agent.messages, AIToolMessage(<<"answer">>, <<>>))
           run == RunAnalysisRaises(agent.logs, <<HumanMessage(<<turn.prompt>>)>>,
                                    final_messages, e, clock)
       IN /\ agent' = [agent EXCEPT !.messages = final_messages]
          /\ Compose(agent_branch(conversations[cur].messages, run), "agent_error", e,
                     [turn EXCEPT !.llm_calls = @ + 1])
    /\ clock' = clock + 1
    /\ UNCHANGED <<current_conversation_id, conversation_counter, tool_toggles,
                   disk, imported, queries, pending, peer, deleted, config, adapter, graph>>

RunNext ==
    \/ \E prompt \in Prompts : Submit(prompt)
    \/ RouteNoTools
    \/ RouteCreateAgent
    \/ \E name \in Tools, id \in CallIds : AgentCallsTool(name, id)
    \/ \E content \in {ToolResult, LongResult} :
          ToolReturnsFrom(content, {ToolResult, LongResult})
    \/ \E e \in Errors : ToolRaisesHandled(e)
    \/ \E e \in Errors : ToolRaisesPropagates(e)
    \/ \E content \in Answers : AgentAnswers(content)
    \/ \E e \in Errors : AgentModelFails(e)
    \/ \E e \in Errors : AgentResultUnreadable(e)
    \/ Persist
    \/ \E name \in Tools : ToggleTool(name)

RunSpec == Init /\ [][RunNext]_vars

----------------------------------------------------------------------------
\* One turn whose agent_instance returns any list of messages.

ResultCalls == {ToolCall("search_web", "c1"), ToolCall("run_code", "c2"),
                ToolCall("search_web", "c2")}

ResultMessages ==
    {AIToolMessage(<<>>, <<c>>) : c \in ResultCalls}
    \cup {AIToolMessage(<<>>, <<c, d>>) : c \in ResultCalls, d \in ResultCalls}
    \cup {ToolMessage(content, id) : content \in {ToolResult, LongResult},
                                     id \in {"c1", "c2"}}
    \cup {AIMessage(<<"answer">>)}

\* result["messages"] after the messages the agent was given.
Results == UNION {[1..n -> ResultMessages] : n \in 0..MaxResultMessages}

\* agent_instance.invoke returns the messages it was given and rest.
AgentReturns(rest) ==
    /\ pc = "invoking"
    /\ ~AwaitingTool
    /\ LET final_messages == agent.messages \o rest
           run == RunReturns(agent.logs, <<HumanMessage(<<turn.prompt>>)>>,
                             final_messages, clock)
       IN /\ agent' = [agent EXCEPT !.messages = final_messages]
          /\ Compose(agent_branch(conversations[cur].messages, run), "answered", "",
                     [turn EXCEPT !.llm_calls = @ + 1])
    /\ clock' = clock + 1
    /\ UNCHANGED <<current_conversation_id, conversation_counter, tool_toggles,
                   disk, imported, queries, pending, peer, deleted, config, adapter, graph>>

ExtractionNext ==
    \/ /\ \A c \in DOMAIN queries : queries[c] = 0
       /\ \E prompt \in Prompts : Submit(prompt)
    \/ RouteCreateAgent
    \/ \E rest \in Results : AgentReturns(rest)
    \/ Persist

ExtractionSpec == Init /\ [][ExtractionNext]_vars

----------------------------------------------------------------------------
\* Files in the logs directory that the application did not write, and a
\* session that starts over them.

\* A file of valid JSON whose value is not an object, as  []  is.
JsonList == [list |-> TRUE]

\* A JSON object without conversation_id, as  {}  is.
NoIdPayload == [conversation_id |-> NoConv]

ForeignPayloads == {Truncated, NoIdPayload, JsonList}
ForeignFile == <<"notes", 0>>

\* payload.get("conversation_id") on a payload that is no dict raises
\* AttributeError, which the loop of load_conversations_from_disk does not
\* handle.
load_conversations_from_disk_raises(files) ==
    \E f \in parsed(files) : files[f] = JsonList

\* Someone puts a file in the logs directory.
DropFile(payload) ==
    /\ disk' = (ForeignFile :> payload) @@ disk
    /\ UNCHANGED <<conversations, current_conversation_id, conversation_counter,
                   tool_toggles, imported, clock, pc, turn, agent, queries,
                   pending, peer, deleted, config, adapter, graph>>

\* The browser opens a new session: the script initialises the session
\* state and loads the logs; an exception of the load ends the script run
\* with the session state as initialised.
OpenSession ==
    /\ pc = "idle"
    /\ IF load_conversations_from_disk_raises(disk)
       THEN /\ conversations' = <<>>
            /\ current_conversation_id' = NoConv
            /\ conversation_counter' = 1
            /\ queries' = <<>>
            /\ tool_toggles' = AllEnabled
            /\ agent' = NoAgent
            /\ pc' = "load_raised"
            /\ UNCHANGED <<disk, clock, turn>>
       ELSE StartSession
    /\ UNCHANGED <<imported, pending, peer, deleted, config, adapter, graph>>

LoadNext ==
    \/ \E prompt \in Prompts : Submit(prompt)
    \/ RouteCreateAgent
    \/ AgentCallsTool("search_web", "c1")
    \/ ToolReturns(ToolResult)
    \/ AgentAnswers(<<"answer">>)
    \/ Persist
    \/ NewConversation
    \/ \E payload \in ForeignPayloads : DropFile(payload)
    \/ OpenSession

LoadSpec == Init /\ [][LoadNext]_vars

----------------------------------------------------------------------------
\* The history of a conversation over turns of up to MaxHistoryCalls tool
\* calls, changes of the checkboxes, saves and reloads.

HistoryNext ==
    \/ \E prompt \in Prompts : Submit(prompt)
    \/ RouteNoTools
    \/ RouteCreateAgent
    \/ \E name \in {"search_web", "run_code"}, id \in {"c1", "c2"} :
          AgentCallsToolUpTo(name, id, MaxHistoryCalls)
    \/ ToolReturns(ToolResult)
    \/ AgentAnswers(<<"answer">>)
    \/ Persist
    \/ \E name \in Tools : ToggleTool(name)
    \/ NewSession

HistorySpec == Init /\ [][HistoryNext]_vars

----------------------------------------------------------------------------
\* Updates of the configuration and calls of the retrieval adapters.

session_vars ==
    <<conversations, current_conversation_id, conversation_counter,
      tool_toggles, disk, imported, clock, pc, turn, agent, queries,
      pending, peer, deleted>>

\* update_enabled_documents / update_enabled_databases, up to the call of
\* save_config: the configuration is loaded and the one key is set.
UpdateLoads(w, key, value) ==
    /\ config.update[w].at = "idle"
    /\ config' = [config EXCEPT !.update[w] =
                     [at |-> "loaded", key |-> key,
                      config |-> [load_config(config.file) EXCEPT ![key] = value]]]
    /\ UNCHANGED <<session_vars, adapter, graph>>

\* save_config: open(CONFIG_FILE, 'w') empties the file,
SaveOpens(w) ==
    /\ config.update[w].at = "loaded"
    /\ config' = [config EXCEPT !.file = Truncated, !.update[w].at = "writing"]
    /\ UNCHANGED <<session_vars, adapter, graph>>

\* and json.dump writes the configuration.
SaveWrites(w) ==
    /\ config.update[w].at = "writing"
    /\ config' = [config EXCEPT !.file = config.update[w].config,
                                !.saved = config.update[w].config,
                                !.update[w] = NoUpdate]
    /\ UNCHANGED <<session_vars, adapter, graph>>

\* update_enabled_documents / update_enabled_databases in one piece, as
\* when a single process updates the configuration.
UpdateConfig(key, value) ==
    /\ \A w \in Writers : config.update[w].at = "idle"
    /\ LET updated == [load_config(config.file) EXCEPT ![key] = value]
       IN config' = [config EXCEPT !.file = updated, !.saved = updated]
    /\ UNCHANGED <<session_vars, adapter, graph>>

\* The agent calls sql_retrieval.
SqlRetrieval(query, sql, database, exists) ==
    /\ LET r == sql_retrieval(config.file, query, sql, database,
                              adapter.databases, exists)
       IN adapter' = [adapter EXCEPT !.tool = "sql_retrieval",
                                     !.database = database,
                                     !.events = r.events,
                                     !.result = r.result,
                                     !.sections = <<>>,
                                     !.databases = r.databases]
    /\ UNCHANGED <<session_vars, config, graph>>

\* What similarity_search may give: up to MaxResults sections, each of a
\* document or without a source.
RawResults ==
    UNION {[1..n -> [source : Docs \cup {""}]] : n \in 0..MaxResults}

\* The agent calls document_retrieval; the index is loaded by the first
\* call of the process and has ntotal entries from then on.
DocumentRetrieval(query, ntotal, raw_results) ==
    /\ adapter.vector_store = "loaded" => ntotal = adapter.ntotal
    /\ ntotal = 0 => raw_results = <<>>
    /\ LET r == document_retrieval(config.file, query, adapter.vector_store,
                                   ntotal, raw_results)
       IN adapter' = [adapter EXCEPT !.tool = "document_retrieval",
                                     !.database = "",
                                     !.vector_store = "loaded",
                                     !.ntotal = ntotal,
                                     !.events = r.events,
                                     !.result = r.result,
                                     !.sections = r.sections]
    /\ UNCHANGED <<session_vars, config, graph>>

ToolsNext ==
    \/ \E docs \in SUBSET Docs : UpdateConfig("enabled_documents", docs)
    \/ \E dbs \in SUBSET Databases : UpdateConfig("enabled_databases", dbs)
    \/ \E sql \in BOOLEAN, database \in Databases \cup {"warehouse"}, exists \in BOOLEAN :
          SqlRetrieval("q1", sql, database, exists)
    \/ \E ntotal \in {0, 1} :
          \E raw_results \in (IF ntotal = 0 THEN {<<>>} ELSE RawResults) :
             DocumentRetrieval("q1", ntotal, raw_results)

ToolsSpec == Init /\ [][ToolsNext]_vars

\* Two processes update the configuration.
ConfigNext ==
    \/ \E w \in Writers :
          \/ \E docs \in SUBSET Docs : UpdateLoads(w, "enabled_documents", docs)
          \/ \E dbs \in SUBSET Databases : UpdateLoads(w, "enabled_databases", dbs)
          \/ SaveOpens(w)
          \/ SaveWrites(w)

ConfigSpec == Init /\ [][ConfigNext]_vars

----------------------------------------------------------------------------
\* Runs of the explicit-routing graph: app.invoke(initial_state).

\* The states given to app.invoke: a question, and tool_choice and
\* tool_output where the caller has set them.
InitialStates ==
    {[question |-> q] @@ choice @@ output :
        q \in Questions,
        choice \in {<<>>} \cup {[tool_choice |-> c] : c \in ToolChoices},
        output \in {<<>>, [tool_output |-> <<>>]}}

GraphEnded == graph.node \in {"end", "raised"}

GraphInvoke(initial_state) ==
    /\ graph.node = "none" \/ GraphEnded
    /\ graph.runs < MaxRuns
    /\ graph' = [node |-> "__start__", state |-> initial_state, nodes_run |-> <<>>,
                 invocations |-> [name \in Tools |-> 0], runs |-> graph.runs + 1]
    /\ UNCHANGED <<session_vars, config, adapter>>

\* The conditional edges from __start__.
Route ==
    /\ graph.node = "__start__"
    /\ graph' = [graph EXCEPT !.node = router_decision(graph.state)]
    /\ UNCHANGED <<session_vars, config, adapter>>

\* The node of a tool, and its edge to generate_final_answer.
RunToolNode ==
    /\ graph.node \in Tools
    /\ LET r == run_tool_node(graph.node, graph.state, graph.invocations)
       IN graph' = [graph EXCEPT !.node = "generate_final_answer",
                                 !.state = r.state,
                                 !.invocations = r.invocations,
                                 !.nodes_run = Append(@, graph.node)]
    /\ UNCHANGED <<session_vars, config, adapter>>

\* The node generate_final_answer, which has no edge out.
GenerateFinalAnswer ==
    /\ graph.node = "generate_final_answer"
    /\ graph' = IF generate_final_answer_raises(graph.state)
                THEN [graph EXCEPT !.node = "raised",
                                   !.nodes_run = Append(@, "generate_final_answer")]
                ELSE [graph EXCEPT !.node = "end",
                                   !.state = generate_final_answer(graph.state),
                                   !.nodes_run = Append(@, "generate_final_answer")]
    /\ UNCHANGED <<session_vars, config, adapter>>

\* model.invoke raises in generate_final_answer.
GenerateFails ==
    /\ graph.node = "generate_final_answer"
    /\ graph' = [graph EXCEPT !.node = "raised",
                              !.nodes_run = Append(@, "generate_final_answer")]
    /\ UNCHANGED <<session_vars, config, adapter>>

GraphStep ==
    \/ Route
    \/ RunToolNode
    \/ GenerateFinalAnswer
    \/ GenerateFails

GraphNext ==
    \/ \E initial_state \in InitialStates : GraphInvoke(initial_state)
    \/ GraphStep

\* The runner of the compiled graph takes the next step of a run.
GraphSpec == Init /\ [][GraphNext]_vars /\ WF_vars(GraphStep)

----------------------------------------------------------------------------
\* Properties.

conv == conversations[cur]

Alternating(messages) ==
    \A i \in DOMAIN messages :
        messages[i].cls = IF i % 2 = 1 THEN "HumanMessage" ELSE "AIMessage"

ErrorOutcomes == {"exception", "agent_error"}

ErrorEntries(logs) == {i \in DOMAIN logs : logs[i].type = "error"}

\* C1: once the turns of a conversation have finished (the handler is idle),
\* the conversation holds exactly two messages per submitted query,
\* alternating HumanMessage, AIMessage, whatever the outcome of each turn
\* (answer, no tools enabled, agent error, exception in the handler).
C1_TwoMessagesPerTurn ==
    pc = "idle" =>
        \A c \in DOMAIN conversations :
            /\ Len(conversations[c].messages) = 2 * queries[c]
            /\ Alternating(conversations[c].messages)

\* Two finished turns of different kinds: a no-tools turn, then a turn whose
\* agent raised.
C1_Witness ==
    /\ pc = "idle"
    /\ queries[cur] = 2
    /\ Len(conv.messages) = 4
    /\ conv.messages[2].content = NoToolsResponse
    /\ turn.outcome = "agent_error"

\* C2: a turn that finds every tool toggle off replies with the fixed
\* no-tools text, and in that turn no adapter is called, no agent is created
\* and the language model is not invoked.
C2_NoToolsShortCircuit ==
    (pc = "composed" /\ get_enabled_tool_functions(tool_toggles) = <<>>) =>
        /\ Last(conv.messages) = AIMessage(NoToolsResponse)
        /\ turn.adapter_calls = 0
        /\ turn.agents_created = 0
        /\ turn.llm_calls = 0

\* C3: after a turn in which an adapter raised, the turn has completed with
\* an assistant message and the conversation stores a record of status
\* failed whose reason contains the exception text.
C3_FailureIsolation ==
    (pc = "idle" /\ turn.raised # {}) =>
        /\ Last(conv.messages).cls = "AIMessage"
        /\ \E i \in DOMAIN conv.tools_used :
              /\ conv.tools_used[i].status = "failed"
              /\ "reason" \in DOMAIN conv.tools_used[i]
              /\ \E e \in turn.raised : Contains(conv.tools_used[i].reason, e)

MergedOnce == combined_tools(turn.existing_tools, turn.new_tools_used, clock)
MergedTwice == combined_tools(MergedOnce, turn.new_tools_used, clock)

\* C4, as claimed: merging the turn's batch of tool records a second time
\* gives the tools_used of merging it once.
C4_MergeIdempotent ==
    pc = "composed" => MergedTwice = MergedOnce

\* C4, amended: merging a batch whose records all carry a non-empty call_id
\* a second time gives the tools_used of merging it once: no record is
\* added, the records present are unchanged.
C4_MergeIdempotentWithIds ==
    (pc = "composed"
     /\ \A i \in DOMAIN turn.new_tools_used : turn.new_tools_used[i].call_id # "")
    => MergedTwice = MergedOnce

\* A batch with a record whose call_id the conversation already holds.
C4_Witness ==
    /\ pc = "composed"
    /\ turn.new_tools_used # <<>>
    /\ \A i \in DOMAIN turn.new_tools_used :
          turn.new_tools_used[i].call_id \in existing_tool_ids(turn.existing_tools)
    /\ MergedOnce = turn.existing_tools

SameCallId(tools) ==
    {<<i, j>> \in (DOMAIN tools) \X (DOMAIN tools) :
        i < j /\ tools[i].call_id = tools[j].call_id}

\* C5, as claimed: no two records of a conversation's tools_used, in memory
\* or in its session file, have the same call_id.
C5_UniqueCallIds ==
    /\ \A c \in DOMAIN conversations : SameCallId(conversations[c].tools_used) = {}
    /\ \A f \in DOMAIN disk : SameCallId(disk[f].tools_used) = {}

\* C5, amended: no two records of a conversation's tools_used, in memory or
\* in its session file, have the same non-empty call_id.
C5_UniqueNonEmptyCallIds ==
    /\ \A c \in DOMAIN conversations :
          \A p \in SameCallId(conversations[c].tools_used) :
              conversations[c].tools_used[p[1]].call_id = ""
    /\ \A f \in DOMAIN disk :
          \A p \in SameCallId(disk[f].tools_used) :
              disk[f].tools_used[p[1]].call_id = ""

\* Two turns each used a tool, under the same call id: one record is kept.
C5_Witness ==
    /\ pc = "idle"
    /\ Cardinality({i \in DOMAIN conv.execution_logs :
                       /\ conv.execution_logs[i].type = "query_timing"
                       /\ conv.execution_logs[i].tools_used # <<>>}) = 2
    /\ Len(conv.tools_used) = 1
    /\ conv.tools_used[1].call_id # ""

\* C6: a saved conversation loads as it was: the same messages (class and
\* content) in the same order, the same tool records and log entries in the
\* same order, the same created_at.  Whenever the handler has saved all it
\* changed, the session files load as the conversations in memory.
C6_RoundTrip ==
    /\ \A c \in DOMAIN conversations :
          load_conversations_from_disk(save_conversation(<<>>, c, conversations))
              = (c :> conversations[c])
    /\ pc # "composed" => load_conversations_from_disk(disk) = conversations

\* A saved conversation of three messages, a tool record and log entries.
C6_Witness ==
    /\ pc = "submitted"
    /\ Len(conv.messages) = 3
    /\ Len(conv.tools_used) = 1
    /\ Len(conv.execution_logs) >= 1
    /\ Len(disk[cur].messages) = 3
    /\ disk[cur].messages[2].type = "ai"

\* C7: the priority caption lists the enabled tools among document_retrieval,
\* sql_retrieval, search_web in exactly that order, whatever is enabled.
C7_PriorityOrder ==
    priority_tools(tool_toggles)
        = SelectSeq(<<"document_retrieval", "sql_retrieval", "search_web">>,
                    LAMBDA name : tool_toggles[name])

C7_Witness ==
    /\ priority_tools(tool_toggles)
           = <<"document_retrieval", "sql_retrieval", "search_web">>
    /\ ~tool_toggles["run_code"]
    /\ queries[cur] >= 1

\* C8: an adapter that never returns leads to its record stored with status
\* failed and to the end of the turn.
C8_TimeoutContainment ==
    (pc = "hung") ~>
        (pc = "idle" /\ \E i \in DOMAIN conv.tools_used :
                            conv.tools_used[i].status = "failed")

\* The session file of the current conversation ends with the query of the
\* turn, as the 2N-1st message.
QueryOnDisk ==
    /\ cur \in DOMAIN disk
    /\ Len(disk[cur].messages) >= 2 * queries[cur] - 1
    /\ disk[cur].messages[2 * queries[cur] - 1]
           = [type |-> "human", content |-> <<turn.prompt>>]

\* C9: from the moment the handler goes on to read the enabled tools, and so
\* before an agent is created or a tool or the model is called, the session
\* file holds the query; it still holds it when the turn has ended, however
\* it ended.
C9_QuerySavedFirst ==
    /\ pc # "idle" => QueryOnDisk
    /\ (pc = "idle" /\ queries[cur] > 0) => QueryOnDisk

\* The second turn failed in the handler; the file holds its query.
C9_Witness ==
    /\ pc = "composed"
    /\ turn.outcome = "exception"
    /\ queries[cur] = 2
    /\ Len(disk[cur].messages) = 3

\* C10: when creating or invoking the agent raised, the reply appended to
\* the conversation contains the error text, and once the turn is merged the
\* conversation's execution_logs hold an entry of type error.
C10_CompositionFailure ==
    /\ (pc \in {"composed", "idle"} /\ turn.outcome \in ErrorOutcomes) =>
          /\ Last(conv.messages).cls = "AIMessage"
          /\ Contains(Last(conv.messages).content, turn.error)
    /\ (pc = "idle" /\ turn.outcome \in ErrorOutcomes) =>
          ErrorEntries(conv.execution_logs) # {}

\* Two turns failed in the handler with the same text: the second error
\* entry equals the first and is not added again.
C10_Witness ==
    /\ pc = "idle"
    /\ turn.outcome = "exception"
    /\ queries[cur] = 2
    /\ Cardinality(ErrorEntries(conv.execution_logs)) = 1

StoredRecords ==
    UNION {{conversations[c].tools_used[i] :
                i \in DOMAIN conversations[c].tools_used} :
                   c \in DOMAIN conversations}
    \cup UNION {{disk[f].tools_used[i] : i \in DOMAIN disk[f].tools_used} :
                   f \in DOMAIN disk}

TerminalStatuses == {"completed", "failed"}

\* The status of every record the conversation c keeps is kept by the step.
StatusKept(c) ==
    \A i \in DOMAIN conversations[c].tools_used :
        conversations[c].tools_used[i].status \in TerminalStatuses =>
            /\ i \in DOMAIN conversations'[c].tools_used
            /\ conversations'[c].tools_used[i].status
                   = conversations[c].tools_used[i].status

\* C11: no tool record stored in a conversation, in memory or in its
\* session file, is in status called: a stored record is in a terminal
\* status; and no step of the program changes the status of a stored record
\* that has reached a terminal status.
C11_TerminalStatus ==
    /\ [](\A r \in StoredRecords : r.status \in TerminalStatuses)
    /\ [][\A c \in DOMAIN conversations \cap DOMAIN conversations' : StatusKept(c)]_vars

\* Two turns have stored a record each; the first answered a call whose
\* adapter raised.
C11_Witness ==
    /\ pc = "idle"
    /\ Len(conv.tools_used) = 2
    /\ conv.tools_used[1].status = "completed"
    /\ Contains(conv.tools_used[1].response, "boom")
    /\ conv.tools_used[2].status = "completed"

IsPrefix(s, t) == Len(s) <= Len(t) /\ SubSeq(t, 1, Len(s)) = s

\* C12: a load of the session files that a second session makes while a
\* conversation is being saved reads every session file as a complete
\* record: it skips none as unreadable.
C12_AtomicSave ==
    peer.started => peer.skipped = {}

\* The messages of the current conversation that belong to a turn still
\* under way: the query, and the reply once it is appended.  A run that
\* ensure_logs_dir ended by its exception never completed its turn.
OpenMessages ==
    CASE pc \in {"writing_query", "submitted", "invoking", "hung"} -> 1
      [] pc \in {"composed", "writing_turn"} -> 2
      [] pc = "idle" /\ turn.save_error = "raised" ->
            IF turn.outcome = "running" THEN 1 ELSE 2
      [] OTHER -> 0

\* What the completed turns of conversation c have put in it.
CompletedTurns(c) ==
    IF c = cur /\ OpenMessages > 0
    THEN [messages |-> SubSeq(conversations[c].messages, 1,
                              Len(conversations[c].messages) - OpenMessages),
          tools_used |-> turn.existing_tools,
          execution_logs |-> turn.existing_logs]
    ELSE [messages |-> conversations[c].messages,
          tools_used |-> conversations[c].tools_used,
          execution_logs |-> conversations[c].execution_logs]

\* What a process started now would load for conversation c.
OnDisk(c) ==
    LET loaded == load_conversations_from_disk(disk)
    IN IF c \in DOMAIN loaded THEN loaded[c] ELSE EmptyConversation(0)

\* C13: at every moment, so whenever the process may be killed, the session
\* files hold every message, tool record and log entry of the completed
\* turns of each conversation of the session (a conversation whose turns
\* before the one under way have all completed: query, reply, query, ..).
C13_CrashLosesInFlightOnly ==
    \A c \in DOMAIN conversations :
        (Alternating(CompletedTurns(c).messages)
         /\ Len(CompletedTurns(c).messages) % 2 = 0) =>
        /\ IsPrefix(CompletedTurns(c).messages, OnDisk(c).messages)
        /\ IsPrefix(CompletedTurns(c).tools_used, OnDisk(c).tools_used)
        /\ IsPrefix(CompletedTurns(c).execution_logs, OnDisk(c).execution_logs)

\* C14: a turn during which the medium refused a save has not crashed: when
\* its run is over, the conversation in memory ends with the query and the
\* reply, and holds the log entries of the turn.
C14_MediumUnavailable ==
    (pc = "idle" /\ turn.save_error # "") =>
        /\ Len(conv.messages) >= 2
        /\ conv.messages[Len(conv.messages) - 1] = HumanMessage(<<turn.prompt>>)
        /\ Last(conv.messages).cls = "AIMessage"
        /\ conv.execution_logs # <<>>

\* A deleted conversation that is still a session file, or still listed.
Stored(d) ==
    /\ d.conversation_id \in parsed(disk)
    /\ disk[d.conversation_id].created_at = d.created_at
Listed(d) ==
    /\ d.conversation_id \in DOMAIN conversations
    /\ conversations[d.conversation_id].created_at = d.created_at

\* C15: a conversation the user has deleted is absent from the session's
\* conversations and from the session files, in every state from the end of
\* the delete action on, so it is never in one without the other and never
\* comes back on a listing or a reload.
C15_DeleteAtomic ==
    \A d \in deleted : ~Stored(d) /\ ~Listed(d)

\* C16: with two sessions over the same session files, no step rewrites the
\* file of a conversation with a different conversation (one created at
\* another time).
C16_SessionsIndependent ==
    [][\A f \in parsed(disk) \cap parsed(disk') :
          disk'[f].created_at = disk[f].created_at]_vars

\* The query_timing entries among the log entries.
TimingEntries(logs) == {i \in DOMAIN logs : logs[i].type = "query_timing"}

\* C17: whenever no turn is under way, after turns the user has left
\* included, every session file holds whole turns only: each query with
\* its reply, and the query_timing entry that the merge of each turn adds,
\* be the reply an answer or the text of a failure.
C17_AbandonKeepsState ==
    pc = "idle" =>
        \A c \in parsed(disk) :
            /\ Alternating(OnDisk(c).messages)
            /\ Len(OnDisk(c).messages) =
                  2 * Cardinality(TimingEntries(OnDisk(c).execution_logs))

\* C18: the agent of a turn holds the tools that were enabled when the turn
\* was routed, the list get_enabled_tool_functions gave then; while
\* agent.invoke runs neither that list nor tool_toggles changes, also when
\* the user has flipped a checkbox meanwhile, and the agent calls no tool
\* outside the list.
C18_ToolsReadOnce ==
    /\ [](pc = "invoking" =>
             /\ agent.tools = turn.enabled_tool_functions
             /\ \A i \in DOMAIN agent.messages :
                   agent.messages[i].cls = "AIMessage" =>
                      \A j \in DOMAIN agent.messages[i].tool_calls :
                         \E k \in DOMAIN agent.tools :
                            agent.tools[k] = agent.messages[i].tool_calls[j].name)
    /\ [][/\ (pc = "submitted" /\ pc' = "invoking") =>
                agent'.tools = get_enabled_tool_functions(tool_toggles)
          /\ pc = "invoking" =>
                /\ tool_toggles' = tool_toggles
                /\ pc' = "invoking" => agent'.tools = agent.tools]_vars

\* The user flips the checkbox of search_web while the agent, which holds
\* search_web, is running and has called it.
C18_Witness ==
    /\ pc = "invoking"
    /\ pending = "search_web"
    /\ tool_toggles["search_web"]
    /\ NumCalls > 0

\* The turns that fail: no tool enabled, an error of the agent, an
\* exception in the handler.
FailedOutcomes == {"no_tools", "agent_error", "exception"}

\* C19: a turn that has failed is merged and saved and the handler is idle
\* again; the idle session then takes the next query, and taking it keeps
\* the transcript of the failed turn, query and failure reply, in front of
\* the new query.
C19_FailuresPerTurn ==
    /\ (turn.outcome \in FailedOutcomes) ~> (pc = "idle")
    /\ []((pc = "idle" /\ turn.outcome \in FailedOutcomes
              /\ queries[cur] < MaxTurns) => ENABLED Submit("q1"))
    /\ [][(turn.outcome \in FailedOutcomes /\ pc = "idle" /\ pc' = "submitted") =>
             /\ cur' = cur
             /\ conv'.messages = Append(conv.messages, HumanMessage(<<turn'.prompt>>))
             /\ Last(conv.messages).cls = "AIMessage"]_vars

\* A turn that found no tool enabled, then, in the same conversation, a
\* turn that the agent answered: the transcript holds both.
C19_Witness ==
    /\ pc = "idle"
    /\ queries[cur] = 2
    /\ turn.outcome = "answered"
    /\ Len(conv.messages) = 4
    /\ conv.messages[2] = AIMessage(NoToolsResponse)
    /\ conv.messages[4].cls = "AIMessage"
    /\ conv.messages[4].content # NoToolsResponse

\* The three sequences of a conversation, or of its file, are kept as the
\* beginning of the new ones.
Appended(old, new) ==
    /\ IsPrefix(old.messages, new.messages)
    /\ IsPrefix(old.tools_used, new.tools_used)
    /\ IsPrefix(old.execution_logs, new.execution_logs)

\* The ids of the tool calls of an agent run, in the order they were made.
RECURSIVE Invocations(_)
Invocations(messages) ==
    IF messages = <<>> THEN <<>>
    ELSE (IF HasToolCalls(Head(messages))
          THEN [c \in DOMAIN Head(messages).tool_calls |->
                   Head(messages).tool_calls[c].id]
          ELSE <<>>)
         \o Invocations(Tail(messages))

\* The elements of sub are elements of full, in the order of full.
RECURSIVE InOrder(_, _)
InOrder(sub, full) ==
    IF sub = <<>> THEN TRUE
    ELSE IF full = <<>> THEN FALSE
    ELSE IF Head(sub) = Head(full) THEN InOrder(Tail(sub), Tail(full))
    ELSE InOrder(sub, Tail(full))

\* C20: every step, be it a step of a turn, a change of a checkbox, a save
\* or a reload, keeps the messages, tools_used and execution_logs of each
\* conversation, in the session and in its file, as the beginning of the new
\* sequences; the records an agent run returns are in the order of its tool
\* calls, and the merge adds records after the old ones in that order.
C20_AppendOnly ==
    /\ [][\A c \in DOMAIN conversations \cap DOMAIN conversations' :
             Appended(conversations[c], conversations'[c])]_vars
    /\ [][\A f \in DOMAIN disk \cap DOMAIN disk' :
             Appended(disk[f], disk'[f])]_vars
    /\ []((pc = "composed" /\ turn.outcome = "answered") =>
             [i \in DOMAIN turn.new_tools_used |-> turn.new_tools_used[i].call_id]
                = Invocations(agent.messages))
    /\ [][(pc = "composed" /\ pc' = "idle") =>
             InOrder(SubSeq(conv'.tools_used, Len(conv.tools_used) + 1,
                            Len(conv'.tools_used)),
                     turn.new_tools_used)]_vars

\* A turn with two tool calls, c2 and then c1, is stored in that order, and
\* the record of search_web is kept after search_web was disabled.
C20_Witness ==
    /\ pc = "idle"
    /\ queries[cur] = 1
    /\ Len(conv.tools_used) = 2
    /\ conv.tools_used[1].call_id = "c2"
    /\ conv.tools_used[1].tool_name = "search_web"
    /\ conv.tools_used[2].call_id = "c1"
    /\ ~tool_toggles["search_web"]

\* What the step that ends a turn adds to the current conversation.
AddedLogs ==
    SubSeq(conv'.execution_logs, Len(conv.execution_logs) + 1,
           Len(conv'.execution_logs))
AddedTools ==
    SubSeq(conv'.tools_used, Len(conv.tools_used) + 1, Len(conv'.tools_used))
ToolNames(records) == [i \in DOMAIN records |-> records[i].tool_name]

\* The one query_timing entry among the added log entries has the start
\* of the turn, an end not before it, their difference, and names.
OneTimingEntry(names) ==
    /\ Cardinality(TimingEntries(AddedLogs)) = 1
    /\ \A i \in TimingEntries(AddedLogs) :
          /\ AddedLogs[i].start_time = turn.query_start_time
          /\ AddedLogs[i].end_time >= AddedLogs[i].start_time
          /\ AddedLogs[i].duration_seconds
                = AddedLogs[i].end_time - AddedLogs[i].start_time
          /\ AddedLogs[i].tools_used = names

Called(name) == adapter' # adapter /\ adapter'.tool = name

Position(events, e) ==
    IF \E i \in DOMAIN events : events[i] = e
    THEN CHOOSE i \in DOMAIN events :
            events[i] = e /\ \A j \in 1..(i - 1) : events[j] # e
    ELSE 0

\* What both forms of C22 say of the results: a database that is not
\* enabled gives the not-enabled text and is neither opened nor queried;
\* the sections returned are at most three, each of an enabled document.
FilteredByConfiguration ==
    /\ Called("sql_retrieval") =>
          (adapter'.database \notin load_config(config.file).enabled_databases =>
              /\ adapter'.result = NotEnabled(adapter'.database)
              /\ adapter'.events = <<<<"load_config">>>>
              /\ adapter'.databases = adapter.databases)
    /\ Called("document_retrieval") =>
          /\ Len(adapter'.sections) <= 3
          /\ \A i \in DOMAIN adapter'.sections :
                adapter'.sections[i].source \in load_config(config.file).enabled_documents

FailureReplies(messages) ==
    {i \in DOMAIN messages :
        /\ messages[i].cls = "AIMessage"
        /\ \/ messages[i].content = NoToolsResponse
           \/ /\ messages[i].content # <<>>
              /\ messages[i].content[1] = "Error: "}

\* C23: once its turns have ended, a conversation holds at least as many
\* log entries of type error as turns that failed in the handler.
C23_ErrorEntryPerFailedTurn ==
    pc = "idle" =>
        \A c \in DOMAIN conversations :
            Cardinality(ErrorEntries(conversations[c].execution_logs))
               >= Cardinality(FailureReplies(conversations[c].messages))

\* C24: in a session, the counter is greater than the number of every
\* conversation the session holds, loaded ones included; so the step that
\* creates a conversation gives it an id the session does not hold, and
\* leaves every conversation of the session and its file as they are.
C24_FreshConversationIds ==
    /\ [](\A c \in DOMAIN conversations : c[2] < conversation_counter)
    /\ [][(peer' = peer /\ conversation_counter' > conversation_counter) =>
             /\ ConvId(conversation_counter) \notin DOMAIN conversations
             /\ ConvId(conversation_counter) \in DOMAIN conversations'
             /\ \A c \in DOMAIN conversations \cap DOMAIN conversations' :
                   /\ conversations'[c] = conversations[c]
                   /\ c \in DOMAIN disk => (c \in DOMAIN disk' /\ disk'[c] = disk[c])]_vars

\* A session that loaded conv_1 from its file at startup, before the other
\* session put a turn in it, has created conv_2.
C24_Witness ==
    /\ ConvId(1) \in DOMAIN conversations
    /\ conversations[ConvId(1)].messages = <<>>
    /\ ConvId(1) \in parsed(disk)
    /\ disk[ConvId(1)].messages # <<>>
    /\ ConvId(2) \in DOMAIN conversations
    /\ conversation_counter = 3

\* The turns whose reply is what run_agent_query_with_tools returned.
RunOutcomes == {"answered", "agent_error"}

\* C25: run_agent_query_with_tools does not raise: a turn that reached
\* agent.invoke never ends in the handler's except branch, and the triple
\* it returned has a non-empty response; after a failure of the agent or of
\* the analysis of its result the response is the error text, the tool list
\* is empty and the last log entry is the error entry.
C25_RunNeverRaises ==
    /\ [](turn.outcome \in RunOutcomes /\ pc = "composed" =>
             /\ turn.response # <<>>
             /\ TextLen(turn.response) > 0
             /\ turn.execution_logs # <<>>
             /\ turn.outcome = "agent_error" =>
                   /\ turn.response = <<"Error executing agent query: ", turn.error>>
                   /\ turn.new_tools_used = <<>>
                   /\ Last(turn.execution_logs).type = "error"
                   /\ Last(turn.execution_logs).error = turn.response)
    /\ [][pc = "invoking" /\ pc' # "invoking" =>
             pc' = "composed" /\ turn'.outcome \in RunOutcomes]_vars

\* The analysis failed on a result that holds a tool call and its answer:
\* the overview was logged, and no record is returned.
C25_Witness ==
    /\ pc = "composed"
    /\ turn.outcome = "agent_error"
    /\ \E i \in DOMAIN agent.messages : HasToolCalls(agent.messages[i])
    /\ \E i \in DOMAIN turn.execution_logs :
          turn.execution_logs[i].type = "execution_overview"
    /\ turn.new_tools_used = <<>>

\* The tool calls of the messages from index i on, each with the index of
\* its message, in message order and then call order.
RECURSIVE CallsFrom(_, _)
CallsFrom(messages, i) ==
    IF i > Len(messages) THEN <<>>
    ELSE (IF HasToolCalls(messages[i])
          THEN [c \in DOMAIN messages[i].tool_calls |->
                   [at |-> i, call |-> messages[i].tool_calls[c]]]
          ELSE <<>>)
         \o CallsFrom(messages, i + 1)

Answered(messages, c) ==
    \E j \in (c.at + 1)..Len(messages) :
        /\ messages[j].cls = "ToolMessage"
        /\ messages[j].tool_call_id = c.call.id

\* C26: the records returned for a result are one per tool call of its AI
\* messages, in message order and then call order; a record is completed
\* and has a response exactly when a later ToolMessage carries the id of
\* its call, and is called without a response otherwise; a response is at
\* most 500 characters and the three of the suffix.
C26_OneRecordPerCall ==
    (pc = "composed" /\ turn.outcome = "answered") =>
        LET calls == CallsFrom(agent.messages, 1)
            records == turn.new_tools_used
        IN /\ Len(records) = Len(calls)
           /\ \A k \in DOMAIN records :
                 /\ records[k].tool_name = calls[k].call.name
                 /\ records[k].call_id = calls[k].call.id
                 /\ records[k].status \in {"called", "completed"}
                 /\ records[k].status = "completed" <=> Answered(agent.messages, calls[k])
                 /\ "response" \in DOMAIN records[k] <=> Answered(agent.messages, calls[k])
                 /\ "response" \in DOMAIN records[k] =>
                       TextLen(records[k].response) <= PreviewLength + 3

\* A result with two calls in one message, one of them answered later by a
\* text of more than 500 characters and the other never answered.
C26_Witness ==
    /\ pc = "composed"
    /\ turn.outcome = "answered"
    /\ Len(turn.new_tools_used) = 2
    /\ \E i \in DOMAIN agent.messages :
          HasToolCalls(agent.messages[i]) /\ Len(agent.messages[i].tool_calls) = 2
    /\ turn.new_tools_used[1].status = "called"
    /\ turn.new_tools_used[2].status = "completed"
    /\ turn.new_tools_used[2].response = <<"long[:500]", "...">>

\* C27: a save of update_enabled_documents or update_enabled_databases
\* changes, in the configuration last written in full, the one key of its
\* update and no other, whatever another update does in between.
C27_UpdateChangesOneKey ==
    [][\A w \in Writers :
          (config.update[w].at = "writing" /\ config'.update[w].at = "idle") =>
              \A key \in DOMAIN config.saved \ {config.update[w].key} :
                  config'.saved[key] = config.saved[key]]_vars

\* The files that hold a conversation of the application.
SessionFiles == {f \in DOMAIN disk : "messages" \in DOMAIN disk[f]}

\* C28: a session never fails to start over the files of the logs
\* directory: a file that cannot be parsed or holds no conversation_id is
\* skipped, and the session that starts holds the conversation of every
\* other file, with its messages, tool records and log entries.
C28_BadFilesSkipped ==
    /\ [](pc # "load_raised")
    /\ [][(pc = "idle" /\ pc' = "idle" /\ turn' = turn /\ disk' = disk
             /\ conversations' # conversations) =>
             \A f \in SessionFiles :
                 /\ disk[f].conversation_id \in DOMAIN conversations'
                 /\ serialize_conversation(disk[f].conversation_id,
                        conversations'[disk[f].conversation_id]) = disk[f]]_vars

\* The tool_choice of the state of the run, "" when it has none.
Choice == IF "tool_choice" \in DOMAIN graph.state THEN graph.state.tool_choice ELSE ""

ToolNodesRun == SelectSeq(graph.nodes_run, LAMBDA n : n \in Tools)
FinalAnswersRun == SelectSeq(graph.nodes_run, LAMBDA n : n = "generate_final_answer")

\* C29: a run of the graph executes at most one tool node, the one named
\* by tool_choice, and then generate_final_answer once, where it ends; with
\* any other tool_choice or none, generate_final_answer is the only node
\* executed; run_code is executed only when tool_choice names it; and
\* every run that has started ends.
C29_OneToolThenAnswer ==
    /\ [](/\ Len(ToolNodesRun) <= 1
          /\ Len(FinalAnswersRun) <= 1
          /\ \A i \in DOMAIN graph.nodes_run :
                graph.nodes_run[i] \in Tools => graph.nodes_run[i] = Choice
          /\ (\E i \in DOMAIN graph.nodes_run : graph.nodes_run[i] = "run_code") =>
                ("tool_choice" \in DOMAIN graph.state /\ graph.state.tool_choice = "run_code")
          /\ GraphEnded =>
                graph.nodes_run = IF Choice \in Tools
                                  THEN <<Choice, "generate_final_answer">>
                                  ELSE <<"generate_final_answer">>)
    /\ (graph.node = "__start__") ~> GraphEnded

\* The second run of a process: tool_choice names run_code, its node has
\* run, and the answer has been generated.
C29_Witness ==
    /\ graph.node = "end"
    /\ graph.runs = 2
    /\ graph.nodes_run = <<"run_code", "generate_final_answer">>
    /\ "generation" \in DOMAIN graph.state

\* C30: in a run of the graph, the node of a tool invokes the tool once,
\* and tool_output then holds what that invocation returned.
C30_AdapterInvokedOnce ==
    \A name \in Tools :
        /\ graph.invocations[name] <= 1
        /\ (\E i \in DOMAIN graph.nodes_run : graph.nodes_run[i] = name) =>
              /\ graph.invocations[name] = 1
              /\ graph.state.tool_output = stub(name, graph.state.question)
====
